---- MODULE Spec2Model ----
(***************************************************************************)
(* Per-sender debounce buffer of the WhatsApp assistant service            *)
(* (internal/buffer, generation revision): Manager.AddMessage and          *)
(* Manager.flushIfCurrent, with the lock-protected sections of each call   *)
(* as the atomic steps, timers as objects that fire no earlier than their  *)
(* deadline, and strings as sequences of one-character strings.            *)
(***************************************************************************)
EXTENDS Integers, Sequences, FiniteSets, TLC

\* ---------------------------------------------------------------- bounds
MaxCalls == 3

\* Manager.timeout, in clock ticks
Window == 2

\* ---------------------------------------------------------------- strings
Hi == <<"H", "i">>
Blank == <<" ", " ">>
AreYouOpen == <<"a", "r", "e", " ", "y", "o", "u", " ", "o", "p", "e", "n", "?">>
Ok == <<"o", "k">>
OkPadded == <<" ", "o", "k", " ">>
KindText == <<"t", "e", "x", "t">>
KindAudio == <<"a", "u", "d", "i", "o">>
KindAudioRaw == <<" ", "A", "u", "d", "i", "o">>
Empty == << >>

Phones == {"p1", "p2"}
\* the inbound fragments: <<text, kind>>
Inputs ==
  {<<Hi, KindText>>, <<Blank, KindText>>, <<AreYouOpen, KindText>>,
   <<Ok, KindText>>, <<OkPadded, KindAudioRaw>>}

\* the AddMessage calls the webhook may make: <<phone, text, kind>>
Calls ==
  {<<"p1", in[1], in[2]>> : in \in Inputs} \cup {<<"p2", Ok, KindText>>}

WhiteSpace == {" ", "\t", "\n", "\r"}

IsSpace(c) == c \in WhiteSpace

RECURSIVE TrimLeft(_)
TrimLeft(s) ==
  IF s = << >> THEN << >>
  ELSE IF IsSpace(Head(s)) THEN TrimLeft(Tail(s)) ELSE s

RECURSIVE TrimRight(_)
TrimRight(s) ==
  IF s = << >> THEN << >>
  ELSE IF IsSpace(s[Len(s)]) THEN TrimRight(SubSeq(s, 1, Len(s) - 1)) ELSE s

\* a TrimSpace that trims nothing
TrimSpaceNone(s) == s

\* strings.TrimSpace
TrimSpace(s) == TrimRight(TrimLeft(s))

LowerOf ==
  [A |-> "a", B |-> "b", C |-> "c", D |-> "d", E |-> "e", F |-> "f", G |-> "g",
   H |-> "h", I |-> "i", J |-> "j", K |-> "k", L |-> "l", M |-> "m", N |-> "n",
   O |-> "o", P |-> "p", Q |-> "q", R |-> "r", S |-> "s", T |-> "t", U |-> "u",
   V |-> "v", W |-> "w", X |-> "x", Y |-> "y", Z |-> "z"]

\* strings.ToLower
ToLower(s) ==
  [i \in 1..Len(s) |-> IF s[i] \in DOMAIN LowerOf THEN LowerOf[s[i]] ELSE s[i]]

\* strings.ToLower(strings.TrimSpace(kind))
NormKind(kind) == ToLower(TrimSpace(kind))

RECURSIVE Join(_, _)
\* strings.Join
Join(elems, sep) ==
  IF elems = << >> THEN << >>
  ELSE IF Len(elems) = 1 THEN elems[1]
  ELSE elems[1] \o sep \o Join(Tail(elems), sep)

ListHeader == <<"M", "e", "n", "s", "a", "g", "e", "n", "s", " ", "r", "e", "c", "e", "n", "t", "e", "s", " ", "d", "o", " ", "u", "s", "u", "á", "r", "i", "o", ":", "\n", "-", " ">>
ListSep == <<"\n", "-", " ">>

\* a join by newline alone, with no header and no list marker
CombinedNewline(msgs) == Join(msgs, <<"\n">>)

\* combined := "Mensagens recentes do usuário:\n- " + strings.Join(msgs, "\n- ")
Combined(msgs) == ListHeader \o Join(msgs, ListSep)

\* an append with no duplicate check
DedupeNever(msgs, normalized) == Append(msgs, normalized)

\* dedupe consecutivo
Dedupe(msgs, normalized) ==
  IF Len(msgs) = 0 \/ msgs[Len(msgs)] # normalized
  THEN Append(msgs, normalized)
  ELSE msgs

\* lastKind recorded only when the fragment was appended
NextLastKindIfAppended(old, msgs, normalized, kind) ==
  IF Len(msgs) = 0 \/ msgs[Len(msgs)] # normalized THEN NormKind(kind) ELSE old

\* buf.lastKind = strings.ToLower(strings.TrimSpace(kind))
NextLastKind(old, msgs, normalized, kind) == NormKind(kind)

\* a flush that never compares generations
IsCurrentAlways(genAtSchedule, gen) == TRUE

\* genAtSchedule != buf.gen  -> return
IsCurrent(genAtSchedule, gen) == genAtSchedule = gen

\* ---------------------------------------------------------------- state
VARIABLES
  buffers,  \* Manager.buffers: phone -> buffer object (NoBuf: no entry)
  heap,     \* the buffer objects ever allocated, by identity
  timers,   \* the timers ever created by time.AfterFunc, in creation order,
            \* each with the position of the flushIfCurrent call it runs
  adds,     \* the AddMessage calls made, each with its position
  flushed   \* the invocations of flushFunc, in order

\* the lock-level view of the same buffer: who holds which mutex
VARIABLES
  mu,       \* Manager.mu: the goroutine holding it (NoOne: free)
  bufmu,    \* buffer.mu of every object of heap: the goroutine holding it
  pending,  \* the AfterFunc timers armed and neither stopped nor fired
  gor,      \* the goroutines running AddMessage or flushIfCurrent
  nadd      \* the number of AddMessage calls started

lockvars == <<mu, bufmu, pending, gor, nadd>>

\* the store, the engine and the gateway as the turn orchestrator sees them
VARIABLES
  clients,   \* table clients: phone -> the row (exists, thread_id)
  messages,  \* table messages, in insertion order
  threads,   \* the engine's threads, by handle: the messages appended to each
  runs,      \* the engine's runs, by id
  sent,      \* the messages the gateway accepted, in order
  turns      \* the processCombinedMessage goroutines, each with its position

turnvars == <<clients, messages, threads, runs, sent, turns>>

\* what the webhook has done, request by request (it also writes messages)
VARIABLES
  responses,  \* the requests served, in order, each with its answer
  upserts,    \* the calls of models.GetOrCreateClient that succeeded
  appended,   \* the calls of bufMgr.AddMessage
  extcalls    \* the calls to the gateway and to the engine

hookvars == <<responses, upserts, appended, extcalls>>

\* the gateway client: the call of the client in progress, with its position
VARIABLES gw

gatevars == <<gw>>

\* the store: table clients with its name column
VARIABLES
  table,   \* the rows of clients, in insertion order
  serial,  \* the last value of the sequence behind clients.id
  stmts    \* the statements executed on clients, in order

storevars == <<table, serial, stmts>>

bufvars == <<buffers, heap, timers, adds, flushed>>

vars == <<bufvars, lockvars, turnvars, hookvars, gatevars, storevars>>

\* what the steps of the debounce buffer leave alone
notBuffer == <<lockvars, turnvars, hookvars, gatevars, storevars>>

\* what the lock-level steps of the buffer leave alone
notLock == <<timers, adds, flushed, turnvars, hookvars, gatevars, storevars>>

\* what the steps of a turn leave alone
notTurn == <<bufvars, lockvars, hookvars, gatevars, storevars>>

\* what the webhook leaves alone, besides the engine and the turns
notHook == <<bufvars, lockvars, gatevars, storevars>>

\* what the steps of the gateway client leave alone
notGate == <<bufvars, lockvars, turnvars, hookvars, storevars>>

\* what the statements on table clients leave alone
notStore == <<bufvars, lockvars, turnvars, hookvars, gatevars>>

NoThread == 0

NoOne == "none"

NoBuf == 0
NoTimer == 0

\* &buffer{} ; phone and srcs are history fields: the sender the object was
\* created for and the AddMessage calls written into it since the last swap
\* no goroutine of the lock-level view exists
\* (the fields of a goroutine are listed at GoIdle)
LockIdle ==
  /\ mu = NoOne
  /\ bufmu = << >>
  /\ pending = {}
  /\ gor = << >>
  /\ nadd = 0

\* the row of a sender the store has never seen
NoClient == [exists |-> FALSE, thread |-> NoThread]

\* an empty store, an engine and a gateway that have been asked nothing
TurnIdle ==
  /\ clients = [p \in Phones |-> NoClient]
  /\ messages = << >>
  /\ threads = << >>
  /\ runs = << >>
  /\ sent = << >>
  /\ turns = << >>

\* no error
NoErr == [text |-> "", net |-> FALSE, timeout |-> FALSE, temporary |-> FALSE]

\* no exchange with the gateway yet
NoWire == [kind |-> "none", idx |-> 0, code |-> 0, body |-> 0, err |-> NoErr, link |-> ""]

\* no call of the gateway client is running
GateIdle ==
  gw = [op |-> "idle", pc |-> "idle", i |-> 0, try |-> 0, delay |-> 0,
        remaining |-> 0, step |-> 0, cancelled |-> FALSE,
        last |-> [code |-> 0, body |-> 0, err |-> NoErr],
        result |-> [kind |-> "none"],
        wire |-> NoWire, before |-> 0, n |-> 0, made |-> 0, waitFailed |-> FALSE]

\* table clients is empty
StoreIdle ==
  /\ table = << >>
  /\ serial = 0
  /\ stmts = << >>

\* no request has been served
HookIdle ==
  /\ responses = << >>
  /\ upserts = << >>
  /\ appended = << >>
  /\ extcalls = << >>

NewBuffer(p) ==
  [msgs |-> << >>, lastKind |-> << >>, timer |-> NoTimer, gen |-> 0,
   phone |-> p, srcs |-> << >>]

Init ==
  /\ buffers = [p \in Phones |-> NoBuf]
  /\ heap = << >>
  /\ timers = << >>
  /\ adds = << >>
  /\ flushed = << >>
  /\ LockIdle
  /\ TurnIdle
  /\ HookIdle
  /\ GateIdle
  /\ StoreIdle

\* the AddMessage call of sender p whose buffer write completed last (0: none);
\* every write creates one timer, so timers are in write order
LastWritten(p) ==
  LET S == {t \in DOMAIN timers : timers[t].phone = p}
  IN IF S = {} THEN 0 ELSE timers[CHOOSE t \in S : \A u \in S : u <= t].by


\* the timer created last for sender p (NoTimer: none)
LastTimer(p) ==
  LET S == {t \in DOMAIN timers : timers[t].phone = p}
  IN IF S = {} THEN NoTimer ELSE CHOOSE t \in S : \A u \in S : u <= t

\* a flushIfCurrent call has swapped buffer b out and not yet deleted the entry
InFlight(b) ==
  \E u \in DOMAIN timers : timers[u].pc \in {"call", "delete"} /\ timers[u].buf = b

\* ---------------------------------------------------------------- AddMessage
\* First part of AddMessage: trim, return on empty, else look the buffer up
\* (creating it) under m.mu.
AddMessage(p, text, kind) ==
  /\ Len(adds) < MaxCalls
  /\ LET normalized == TrimSpace(text)
         call == [phone |-> p, text |-> text, kind |-> kind,
                  prev |-> 0, within |-> FALSE, onold |-> FALSE]
     IN IF normalized = Empty
        THEN /\ adds' = Append(adds, call @@ [pc |-> "done", buf |-> NoBuf])
             /\ UNCHANGED <<buffers, heap>>
        ELSE IF buffers[p] = NoBuf
        THEN /\ heap' = Append(heap, NewBuffer(p))
             /\ buffers' = [buffers EXCEPT ![p] = Len(heap) + 1]
             /\ adds' = Append(adds, call @@ [pc |-> "write", buf |-> Len(heap) + 1])
        ELSE /\ adds' = Append(adds, call @@ [pc |-> "write", buf |-> buffers[p]])
             /\ UNCHANGED <<buffers, heap>>
  /\ UNCHANGED <<timers, flushed, notBuffer>>

\* a Stop that stops every armed timer of the manager
StopEveryTimer(ts, t) ==
  [u \in DOMAIN ts |-> IF ts[u].pc = "armed" THEN [ts[u] EXCEPT !.pc = "stopped"] ELSE ts[u]]

\* timer.Stop(): a timer that has not fired never will; one that has is untouched
StopTimer(ts, t) ==
  IF t # NoTimer /\ ts[t].pc = "armed" THEN [ts EXCEPT ![t].pc = "stopped"] ELSE ts

\* time.AfterFunc(m.timeout, func() { m.flushIfCurrent(phone, currentGen) });
\* left is the time to the deadline, by is a history field: the arming call
NewTimer(p, currentGen, a) ==
  [phone |-> p, gen |-> currentGen, left |-> Window, pc |-> "armed", by |-> a,
   buf |-> NoBuf, msgs |-> << >>, lastKind |-> << >>, srcs |-> << >>, last |-> 0,
   out |-> "none"]

\* Second part of AddMessage, under buf.mu: dedupe, lastKind, gen++, Stop,
\* AfterFunc.
AddWrite(a) ==
  /\ adds[a].pc = "write"
  /\ LET b == adds[a].buf
         old == heap[b]
         normalized == TrimSpace(adds[a].text)
         currentGen == old.gen + 1
     IN /\ heap' = [heap EXCEPT ![b] =
                      [msgs |-> Dedupe(old.msgs, normalized),
                       lastKind |-> NextLastKind(old.lastKind, old.msgs, normalized, adds[a].kind),
                       timer |-> Len(timers) + 1, gen |-> currentGen,
                       phone |-> old.phone, srcs |-> Append(old.srcs, a)]]
        /\ timers' = Append(StopTimer(timers, old.timer),
                            NewTimer(adds[a].phone, currentGen, a))
        \* history: the call buffered just before this one in the same object,
        \* whether the sender's previous window was still open, and whether the
        \* object was being flushed
        /\ adds' = [adds EXCEPT ![a].pc = "done",
                                ![a].prev = IF old.srcs = << >> THEN 0
                                            ELSE old.srcs[Len(old.srcs)],
                                ![a].within = (LastTimer(adds[a].phone) # NoTimer
                                               /\ timers[LastTimer(adds[a].phone)].left > 0),
                                ![a].onold = InFlight(b)]
  /\ UNCHANGED <<buffers, flushed, notBuffer>>

\* ---------------------------------------------------------------- timers
\* The runtime starts the AfterFunc goroutine, no earlier than the deadline.
TimerFire(t) ==
  /\ timers[t].pc = "armed"
  /\ timers[t].left = 0
  /\ timers' = [timers EXCEPT ![t].pc = "fired"]
  /\ UNCHANGED <<buffers, heap, adds, flushed, notBuffer>>

\* the flushIfCurrent call of timer t returns
Return(t, out) ==
  [timers EXCEPT ![t].pc = "done", ![t].out = out, ![t].buf = NoBuf,
                 ![t].msgs = << >>, ![t].lastKind = << >>, ![t].srcs = << >>,
                 ![t].last = 0]

\* flushIfCurrent, under m.mu: look the buffer up, return when absent
FlushLookup(t) ==
  /\ timers[t].pc = "fired"
  /\ LET b == buffers[timers[t].phone]
     IN timers' = IF b = NoBuf
                  THEN Return(t, "noentry")
                  ELSE [timers EXCEPT ![t].pc = "check", ![t].buf = b]
  /\ UNCHANGED <<buffers, heap, adds, flushed, notBuffer>>

\* a swap that leaves the fragment list in the buffer
DrainedKeepsList(buf) == [buf EXCEPT !.timer = NoTimer]

\* buf.msgs = nil; buf.lastKind = ""; buf.timer = nil
Drained(buf) ==
  [buf EXCEPT !.msgs = << >>, !.lastKind = << >>, !.timer = NoTimer, !.srcs = << >>]

\* flushIfCurrent, under buf.mu: return when the generation moved on, else
\* swap the fragment list and lastKind out and clear the timer handle
FlushCheck(t) ==
  /\ timers[t].pc = "check"
  /\ LET b == timers[t].buf
     IN IF ~IsCurrent(timers[t].gen, heap[b].gen)
        THEN /\ timers' = Return(t, "stale")
             /\ UNCHANGED heap
        ELSE /\ timers' = [timers EXCEPT ![t].pc = "call",
                                         ![t].msgs = heap[b].msgs,
                                         ![t].lastKind = heap[b].lastKind,
                                         ![t].srcs = heap[b].srcs,
                                         ![t].last = LastWritten(timers[t].phone)]
             /\ heap' = [heap EXCEPT ![b] = Drained(heap[b])]
  /\ UNCHANGED <<buffers, adds, flushed, notBuffer>>

\* flushIfCurrent, no lock held: flushFunc(phone, combined, lastKind) when
\* there is something to flush; the call lasts until FlushDelete
FlushCall(t) ==
  /\ timers[t].pc = "call"
  /\ IF Len(timers[t].msgs) > 0
     THEN /\ flushed' = Append(flushed,
                [phone |-> timers[t].phone, combined |-> Combined(timers[t].msgs),
                 lastKind |-> timers[t].lastKind, msgs |-> timers[t].msgs,
                 srcs |-> timers[t].srcs, timer |-> t,
                 by |-> timers[t].by, last |-> timers[t].last,
                 entry |-> (buffers[timers[t].phone] = timers[t].buf)])
          /\ timers' = [timers EXCEPT ![t].pc = "delete", ![t].out = "flushed"]
     ELSE /\ timers' = [timers EXCEPT ![t].pc = "delete", ![t].out = "empty"]
          /\ UNCHANGED flushed
  /\ UNCHANGED <<buffers, heap, adds, notBuffer>>

\* a flush that leaves the entry in the map
DeletedNever(bufs, p) == bufs

\* delete(m.buffers, phone)
Deleted(bufs, p) == [bufs EXCEPT ![p] = NoBuf]

\* flushIfCurrent, under m.mu, after flushFunc returned: delete(m.buffers, phone)
FlushDelete(t) ==
  /\ timers[t].pc = "delete"
  /\ buffers' = Deleted(buffers, timers[t].phone)
  /\ timers' = Return(t, timers[t].out)
  /\ UNCHANGED <<heap, adds, flushed, notBuffer>>

\* One unit of time passes: every timer is one unit nearer its deadline. Time
\* is only observed through timers, so it passes while one is still to expire.
Tick ==
  /\ \E t \in DOMAIN timers : timers[t].pc = "armed" /\ timers[t].left > 0
  /\ timers' = [t \in DOMAIN timers |->
                  IF timers[t].left > 0
                  THEN [timers[t] EXCEPT !.left = @ - 1]
                  ELSE timers[t]]
  /\ UNCHANGED <<buffers, heap, adds, flushed, notBuffer>>

Next ==
  \/ \E c \in Calls : AddMessage(c[1], c[2], c[3])
  \/ \E a \in DOMAIN adds : AddWrite(a)
  \/ \E t \in DOMAIN timers : TimerFire(t)
  \/ \E t \in DOMAIN timers : FlushLookup(t)
  \/ \E t \in DOMAIN timers : FlushCheck(t)
  \/ \E t \in DOMAIN timers : FlushCall(t)
  \/ \E t \in DOMAIN timers : FlushDelete(t)
  \/ Tick

Spec == Init /\ [][Next]_vars

\* what goes on without the webhook: time passes, armed timers fire, and the
\* calls of AddMessage and flushIfCurrent in progress take their next step
Progress ==
  \/ \E a \in DOMAIN adds : AddWrite(a)
  \/ \E t \in DOMAIN timers : TimerFire(t)
  \/ \E t \in DOMAIN timers : FlushLookup(t)
  \/ \E t \in DOMAIN timers : FlushCheck(t)
  \/ \E t \in DOMAIN timers : FlushCall(t)
  \/ \E t \in DOMAIN timers : FlushDelete(t)
  \/ Tick

\* the buffer with a runtime that lets time pass and schedules every goroutine
\* that can run; the webhook may stop calling AddMessage at any point
LiveSpec == Spec /\ WF_vars(Progress)

\* ================================================================ locks
\* AddMessage and flushIfCurrent again, one step per Lock() and one per critical
\* section, with a flushFunc that may call AddMessage for the sender it is
\* given. A goroutine blocked in Lock() has no step until the mutex is free.
MaxAppends == 3

Requests == {"r1"}

Flushers == {"f1", "f2"}

Goroutines == Requests \cup Flushers

LockCalls == {<<"p1", Hi, KindText>>, <<"p1", Blank, KindText>>, <<"p2", Ok, KindText>>}

\* what flushFunc passes to AddMessage when it calls it
CallbackInputs == {<<Ok, KindAudio>>}

\* a goroutine outside AddMessage and flushIfCurrent; cb: the AddMessage call
\* is made by flushFunc; cbdone is a history field: such a call has returned
GoIdle ==
  [pc |-> "idle", phone |-> "", text |-> Empty, kind |-> Empty, buf |-> NoBuf,
   gen |-> 0, msgs |-> << >>, lastKind |-> << >>, cb |-> FALSE, cbdone |-> FALSE]

LockInit ==
  /\ buffers = [p \in Phones |-> NoBuf]
  /\ heap = << >>
  /\ timers = << >>
  /\ adds = << >>
  /\ flushed = << >>
  /\ mu = NoOne
  /\ bufmu = << >>
  /\ pending = {}
  /\ gor = [g \in Goroutines |-> GoIdle]
  /\ nadd = 0
  /\ TurnIdle
  /\ HookIdle
  /\ GateIdle
  /\ StoreIdle

\* the locks goroutine g holds
HeldBy(g) ==
  (IF mu = g THEN {<<"m.mu", NoBuf>>} ELSE {}) \cup {<<"buf.mu", b>> : b \in {i \in DOMAIN bufmu : bufmu[i] = g}}

\* a request goroutine calls AddMessage: trim, return on empty
LockAddMessage(g, p, text, kind) ==
  /\ g \in Requests
  /\ gor[g].pc = "idle"
  /\ nadd < MaxAppends
  /\ nadd' = nadd + 1
  /\ gor' = IF TrimSpace(text) = Empty
            THEN gor
            ELSE [gor EXCEPT ![g] = [GoIdle EXCEPT !.pc = "add.lock.m", !.phone = p,
                                                   !.text = text, !.kind = kind]]
  /\ UNCHANGED <<buffers, heap, mu, bufmu, pending, notLock>>

\* m.mu.Lock()
LockManager(g) ==
  /\ gor[g].pc \in {"add.lock.m", "flush.lock.m", "delete.lock.m"}
  /\ mu = NoOne
  /\ mu' = g
  /\ gor' = [gor EXCEPT ![g].pc = CASE gor[g].pc = "add.lock.m" -> "add.lookup"
                                    [] gor[g].pc = "flush.lock.m" -> "flush.lookup"
                                    [] gor[g].pc = "delete.lock.m" -> "delete"]
  /\ UNCHANGED <<buffers, heap, bufmu, pending, nadd, notLock>>

\* AddMessage under m.mu: look the buffer up or create it; m.mu.Unlock()
LockAddLookup(g) ==
  /\ gor[g].pc = "add.lookup"
  /\ LET p == gor[g].phone
     IN IF buffers[p] = NoBuf
        THEN /\ heap' = Append(heap, NewBuffer(p))
             /\ bufmu' = Append(bufmu, NoOne)
             /\ buffers' = [buffers EXCEPT ![p] = Len(heap) + 1]
             /\ gor' = [gor EXCEPT ![g].pc = "add.lock.buf", ![g].buf = Len(heap) + 1]
        ELSE /\ gor' = [gor EXCEPT ![g].pc = "add.lock.buf", ![g].buf = buffers[p]]
             /\ UNCHANGED <<buffers, heap, bufmu>>
  /\ mu' = NoOne
  /\ UNCHANGED <<pending, nadd, notLock>>

\* buf.mu.Lock()
LockBuffer(g) ==
  /\ gor[g].pc \in {"add.lock.buf", "flush.lock.buf"}
  /\ bufmu[gor[g].buf] = NoOne
  /\ bufmu' = [bufmu EXCEPT ![gor[g].buf] = g]
  /\ gor' = [gor EXCEPT ![g].pc = IF gor[g].pc = "add.lock.buf" THEN "add.write"
                                  ELSE "flush.check"]
  /\ UNCHANGED <<buffers, heap, mu, pending, nadd, notLock>>

\* AddMessage under buf.mu: dedupe, lastKind, gen++, Stop, AfterFunc;
\* buf.mu.Unlock() and return (into flushFunc when it made the call)
LockAddWrite(g) ==
  /\ gor[g].pc = "add.write"
  /\ LET b == gor[g].buf
         old == heap[b]
         normalized == TrimSpace(gor[g].text)
         currentGen == old.gen + 1
     IN /\ heap' = [heap EXCEPT ![b] =
                      [old EXCEPT !.msgs = Dedupe(old.msgs, normalized),
                                  !.lastKind = NextLastKind(old.lastKind, old.msgs,
                                                            normalized, gor[g].kind),
                                  !.timer = currentGen, !.gen = currentGen]]
        /\ pending' = {t \in pending : ~(t.buf = b /\ t.gen = old.timer)}
                        \cup {[phone |-> gor[g].phone, gen |-> currentGen, buf |-> b]}
        /\ bufmu' = [bufmu EXCEPT ![b] = NoOne]
  /\ gor' = [gor EXCEPT ![g] = IF gor[g].cb
                               THEN [gor[g] EXCEPT !.pc = "delete.lock.m", !.cbdone = TRUE]
                               ELSE GoIdle]
  /\ UNCHANGED <<buffers, mu, nadd, notLock>>

\* a timer expires: the runtime runs flushIfCurrent(phone, currentGen) on a
\* goroutine of its own
LockTimerFire(g) ==
  /\ g \in Flushers
  /\ gor[g].pc = "idle"
  /\ \E t \in pending :
       /\ pending' = pending \ {t}
       /\ gor' = [gor EXCEPT ![g] = [GoIdle EXCEPT !.pc = "flush.lock.m",
                                                   !.phone = t.phone, !.gen = t.gen]]
  /\ UNCHANGED <<buffers, heap, mu, bufmu, nadd, notLock>>

\* flushIfCurrent under m.mu: look the buffer up; m.mu.Unlock(); return when absent
LockFlushLookup(g) ==
  /\ gor[g].pc = "flush.lookup"
  /\ LET b == buffers[gor[g].phone]
     IN gor' = [gor EXCEPT ![g] = IF b = NoBuf THEN GoIdle
                                  ELSE [gor[g] EXCEPT !.pc = "flush.lock.buf", !.buf = b]]
  /\ mu' = NoOne
  /\ UNCHANGED <<buffers, heap, bufmu, pending, nadd, notLock>>

\* the swap section of a broken flush that returns with buf.mu still locked
SwapKeepsLock(g) == g

\* buf.mu.Unlock() that ends the swap section: the holder afterwards
SwapUnlock(g) == NoOne

\* flushIfCurrent under buf.mu: unlock and return when the generation moved
\* on, else swap the fragment list out and unlock
LockFlushCheck(g) ==
  /\ gor[g].pc = "flush.check"
  /\ LET b == gor[g].buf
     IN IF ~IsCurrent(gor[g].gen, heap[b].gen)
        THEN /\ gor' = [gor EXCEPT ![g] = GoIdle]
             /\ bufmu' = [bufmu EXCEPT ![b] = NoOne]
             /\ UNCHANGED heap
        ELSE /\ gor' = [gor EXCEPT ![g].pc = "flush.call", ![g].msgs = heap[b].msgs,
                                   ![g].lastKind = heap[b].lastKind]
             /\ heap' = [heap EXCEPT ![b].msgs = << >>, ![b].lastKind = << >>,
                                     ![b].timer = NoTimer]
             /\ bufmu' = [bufmu EXCEPT ![b] = SwapUnlock(g)]
  /\ UNCHANGED <<buffers, mu, pending, nadd, notLock>>

\* flushIfCurrent between the two sections: flushFunc(phone, combined,
\* lastKind) when there is something to flush. flushFunc either returns, or
\* calls AddMessage for the sender it was given, on this goroutine.
LockFlushCall(g) ==
  /\ gor[g].pc = "flush.call"
  /\ \/ /\ gor' = [gor EXCEPT ![g].pc = "delete.lock.m"]
        /\ UNCHANGED nadd
     \/ /\ Len(gor[g].msgs) > 0
        /\ nadd < MaxAppends
        /\ nadd' = nadd + 1
        /\ \E in \in CallbackInputs :
             gor' = [gor EXCEPT ![g] =
                       IF TrimSpace(in[1]) = Empty
                       THEN [gor[g] EXCEPT !.pc = "delete.lock.m", !.cbdone = TRUE]
                       ELSE [gor[g] EXCEPT !.pc = "add.lock.m", !.text = in[1],
                                           !.kind = in[2], !.cb = TRUE]]
  /\ UNCHANGED <<buffers, heap, mu, bufmu, pending, notLock>>

\* flushIfCurrent under m.mu: delete(m.buffers, phone); m.mu.Unlock()
LockFlushDelete(g) ==
  /\ gor[g].pc = "delete"
  /\ buffers' = [buffers EXCEPT ![gor[g].phone] = NoBuf]
  /\ mu' = NoOne
  /\ gor' = [gor EXCEPT ![g] = [GoIdle EXCEPT !.cbdone = gor[g].cbdone]]
  /\ UNCHANGED <<heap, bufmu, pending, nadd, notLock>>

LockNext ==
  \/ \E g \in Goroutines, c \in LockCalls : LockAddMessage(g, c[1], c[2], c[3])
  \/ \E g \in Goroutines : LockManager(g)
  \/ \E g \in Goroutines : LockAddLookup(g)
  \/ \E g \in Goroutines : LockBuffer(g)
  \/ \E g \in Goroutines : LockAddWrite(g)
  \/ \E g \in Goroutines : LockTimerFire(g)
  \/ \E g \in Goroutines : LockFlushLookup(g)
  \/ \E g \in Goroutines : LockFlushCheck(g)
  \/ \E g \in Goroutines : LockFlushCall(g)
  \/ \E g \in Goroutines : LockFlushDelete(g)

LockSpec == LockInit /\ [][LockNext]_vars

\* ================================================================ turns
\* processCombinedMessage, one step per call to the store, the engine or the
\* gateway; every such call either succeeds or returns an error.
MaxTurns == 2

\* for i := 0; i < 10; i++
PollBudget == 10

\* the run statuses the engine reports
Statuses == {"in_progress", "completed", "failed", "expired"}

\* status == "completed" || status == "failed" || status == "expired"
Terminal == {"completed", "failed", "expired"}

\* the reply texts of the engine
Replies == {AreYouOpen}

\* what flushIfCurrent hands to flushFunc: the sender, the fragments it
\* combines, lastKind
Flushes == {<<"p1", <<Hi>>, KindText>>, <<"p1", <<Ok>>, KindAudio>>, <<"p2", <<Hi, Ok>>, KindText>>}

\* go h.processCombinedMessage(context.Background(), phone, combined): the
\* locals of the call. lastKind and err are history fields: what the buffer
\* flushed with the turn (the callback has no parameter for it), and the call
\* of the turn that returned an error the turn did not ignore. i is the
\* variable of the polling loop and seen a history field, what h.ai.GetRun
\* returned call by call; both are used where the loop is taken round by round.
NewTurn(phone, combined, lastKind) ==
  [pc |-> "GetOrCreateClient", phone |-> phone, combined |-> combined,
   lastKind |-> lastKind, threadID |-> NoThread, tid |-> NoThread, runID |-> 0,
   status |-> "", reply |-> Empty, err |-> "", out |-> "running",
   i |-> 0, seen |-> << >>]

\* return: the locals are gone; status and out stay as history, the status the
\* polling ended with and the way the turn ended
Return2(t, why) ==
  [NewTurn(t.phone, Empty, t.lastKind) EXCEPT !.pc = "done", !.status = t.status,
                                              !.err = t.err, !.out = why,
                                              !.seen = t.seen]

\* log and return
Abort(t, why) == Return2(t, why)

\* the flush callback starts a turn on a goroutine of its own
StartTurn(f) ==
  /\ Len(turns) < MaxTurns
  /\ turns' = Append(turns, NewTurn(f[1], Combined(f[2]), f[3]))
  /\ UNCHANGED <<clients, messages, threads, runs, sent, notTurn>>

\* models.GetOrCreateClient: upsert the row, read thread_id; then the branch on
\* client.ThreadID
GetOrCreateClient(k) ==
  /\ turns[k].pc = "GetOrCreateClient"
  /\ LET p == turns[k].phone
     IN \/ /\ turns' = [turns EXCEPT ![k] = Abort(@, "buffer db error")]
           /\ UNCHANGED clients
        \/ /\ clients' = [clients EXCEPT ![p].exists = TRUE]
           /\ turns' = [turns EXCEPT ![k] =
                          IF clients[p].thread # NoThread
                          THEN [@ EXCEPT !.pc = "InsertUserMessage",
                                         !.threadID = clients[p].thread]
                          ELSE [@ EXCEPT !.pc = "CreateThread"]]
  /\ UNCHANGED <<messages, threads, runs, sent, notTurn>>

\* h.ai.CreateThread: the engine mints a handle
CreateThread(k) ==
  /\ turns[k].pc = "CreateThread"
  /\ \/ /\ turns' = [turns EXCEPT ![k] = Abort(@, "openai thread error")]
        /\ UNCHANGED threads
     \/ /\ threads' = Append(threads, [msgs |-> << >>, by |-> k])
        /\ turns' = [turns EXCEPT ![k].pc = "SetClientThread", ![k].tid = Len(threads) + 1]
  /\ UNCHANGED <<clients, messages, runs, sent, notTurn>>

\* a turn that goes on with the handle it minted although storing it failed
OnSetThreadErrorGoOn(t) == [t EXCEPT !.pc = "InsertUserMessage", !.threadID = t.tid]

\* log.Println("db set thread error:", err); return
OnSetThreadError(t) == Abort(t, "db set thread error")

\* models.SetClientThread: UPDATE clients SET thread_id=$1 WHERE id=$2, an
\* error when the statement fails or no row has the id
SetClientThread(k) ==
  /\ turns[k].pc = "SetClientThread"
  /\ LET p == turns[k].phone
     IN \/ /\ turns' = [turns EXCEPT ![k] = OnSetThreadError([@ EXCEPT !.err = "SetClientThread"])]
           /\ UNCHANGED clients
        \/ IF clients[p].exists
           THEN /\ clients' = [clients EXCEPT ![p].thread = turns[k].tid]
                /\ turns' = [turns EXCEPT ![k].pc = "InsertUserMessage",
                                          ![k].threadID = turns[k].tid]
           ELSE /\ turns' = [turns EXCEPT ![k] = OnSetThreadError([@ EXCEPT !.err = "SetClientThread"])]
                /\ UNCHANGED clients
  /\ UNCHANGED <<messages, threads, runs, sent, notTurn>>

\* _ = models.InsertMessage(... Role: "user", Type: "text", Content: combined)
InsertUserMessage(k) ==
  /\ turns[k].pc = "InsertUserMessage"
  /\ \E ok \in BOOLEAN :
       messages' = IF ok
                   THEN Append(messages, [client |-> turns[k].phone, role |-> "user",
                                          type |-> "text", content |-> turns[k].combined,
                                          by |-> k])
                   ELSE messages
  /\ turns' = [turns EXCEPT ![k].pc = "AddUserMessage"]
  /\ UNCHANGED <<clients, threads, runs, sent, notTurn>>

\* h.ai.AddUserMessage(ctx, threadID, combined)
AddUserMessage(k) ==
  /\ turns[k].pc = "AddUserMessage"
  /\ \/ /\ turns' = [turns EXCEPT ![k] = Abort(@, "openai add message error")]
        /\ UNCHANGED threads
     \/ /\ threads' = [threads EXCEPT ![turns[k].threadID].msgs =
                                        Append(@, [content |-> turns[k].combined, by |-> k])]
        /\ turns' = [turns EXCEPT ![k].pc = "CreateRun"]
  /\ UNCHANGED <<clients, messages, runs, sent, notTurn>>

\* h.ai.CreateRun(ctx, threadID)
CreateRun(k) ==
  /\ turns[k].pc = "CreateRun"
  /\ \/ /\ turns' = [turns EXCEPT ![k] = Abort(@, "openai run error")]
        /\ UNCHANGED runs
     \/ /\ runs' = Append(runs, [thread |-> turns[k].threadID, by |-> k])
        /\ turns' = [turns EXCEPT ![k].pc = "GetRun", ![k].runID = Len(runs) + 1]
  /\ UNCHANGED <<clients, messages, threads, sent, notTurn>>

\* a turn that goes on whenever the run has ended
RunTerminal(status) == status \in Terminal

\* status != "completed"  -> log and return
RunCompleted(status) == status = "completed"

\* what GetRun returns in each round of the loop: the run is in progress for
\* the first n rounds and then ends, or GetRun fails
Script(n, last) == [j \in 1..PollBudget |-> IF j <= n THEN "in_progress" ELSE last]

Scripts == {Script(n, last) : n \in 0..PollBudget, last \in Terminal \cup {"error"}}

\* a loop that goes on polling a run that failed or expired
StopsOnCompleted(status) == status = "completed"

\* if status == "completed" || status == "failed" || status == "expired" { break }
StopsPolling(status) == status \in Terminal

RECURSIVE PollLoop(_, _, _)
\* The polling loop from round i on: time.Sleep, h.ai.GetRun, break on an
\* error (status is then "") or on a terminal status. The status it ends with.
PollLoop(results, i, status) ==
  IF i >= PollBudget THEN status
  ELSE LET r == results[i + 1]
       IN IF r = "error" THEN ""
          ELSE IF StopsPolling(r) THEN r
          ELSE PollLoop(results, i + 1, r)

\* The polling loop and the test after it: the turn goes on only when the run
\* completed. The loop reads and writes nothing but the engine's answer.
GetRun(k) ==
  /\ turns[k].pc = "GetRun"
  /\ \E results \in Scripts :
       LET status == PollLoop(results, 0, "")
       IN turns' = [turns EXCEPT ![k] =
                      IF RunCompleted(status)
                      THEN [@ EXCEPT !.pc = "GetLastAssistantText", !.status = status]
                      ELSE Abort([@ EXCEPT !.status = status], "run not completed")]
  /\ UNCHANGED <<clients, messages, threads, runs, sent, notTurn>>

\* h.ai.GetLastAssistantText(ctx, threadID)
GetLastAssistantText(k) ==
  /\ turns[k].pc = "GetLastAssistantText"
  /\ \/ turns' = [turns EXCEPT ![k] = Abort(@, "openai get message error")]
     \/ \E reply \in Replies :
          turns' = [turns EXCEPT ![k].pc = "InsertAssistantMessage", ![k].reply = reply]
  /\ UNCHANGED <<clients, messages, threads, runs, sent, notTurn>>

\* _ = models.InsertMessage(... Role: "assistant", Type: "text", Content: reply)
InsertAssistantMessage(k) ==
  /\ turns[k].pc = "InsertAssistantMessage"
  /\ \E ok \in BOOLEAN :
       messages' = IF ok
                   THEN Append(messages, [client |-> turns[k].phone, role |-> "assistant",
                                          type |-> "text", content |-> turns[k].reply,
                                          by |-> k])
                   ELSE messages
  /\ turns' = [turns EXCEPT ![k].pc = "SendText"]
  /\ UNCHANGED <<clients, threads, runs, sent, notTurn>>

\* h.wpp.SendText(ctx, phone, reply); an error is logged
SendText(k) ==
  /\ turns[k].pc = "SendText"
  /\ \/ /\ turns' = [turns EXCEPT ![k] = Abort(@, "uazapi send text error")]
        /\ UNCHANGED sent
     \/ /\ sent' = Append(sent, [to |-> turns[k].phone, kind |-> "text",
                                 body |-> turns[k].reply, by |-> k])
        /\ turns' = [turns EXCEPT ![k] = Return2(@, "ok")]
  /\ UNCHANGED <<clients, messages, threads, runs, notTurn>>

TurnNext ==
  \/ \E f \in Flushes : StartTurn(f)
  \/ \E k \in DOMAIN turns : GetOrCreateClient(k)
  \/ \E k \in DOMAIN turns : CreateThread(k)
  \/ \E k \in DOMAIN turns : SetClientThread(k)
  \/ \E k \in DOMAIN turns : InsertUserMessage(k)
  \/ \E k \in DOMAIN turns : AddUserMessage(k)
  \/ \E k \in DOMAIN turns : CreateRun(k)
  \/ \E k \in DOMAIN turns : GetRun(k)
  \/ \E k \in DOMAIN turns : GetLastAssistantText(k)
  \/ \E k \in DOMAIN turns : InsertAssistantMessage(k)
  \/ \E k \in DOMAIN turns : SendText(k)

TurnSpec == Init /\ [][TurnNext]_vars

\* ================================================================ polling
\* processCombinedMessage again, for one turn at a time and with the polling
\* loop taken round by round: every round sleeps, asks the engine once and
\* gets whatever the engine answers.
MaxPolling == 1

\* what h.ai.GetRun may return: a status of the run, or an error
PollAnswers == Statuses \cup {"queued", "error"}

\* a loop that goes on to the next round after an error
OnPollErrorGoOn(t) == [t EXCEPT !.status = "", !.i = @ + 1]

\* status, err = h.ai.GetRun(...) returned "" and an error: break
OnPollError(t) == [t EXCEPT !.pc = "AfterPoll", !.status = ""]

\* one round of the loop: time.Sleep, status, err = h.ai.GetRun(...), break on
\* an error (GetRun then returns "") or on a terminal status, else i++
PollRound(k, r) ==
  /\ turns[k].pc = "GetRun"
  /\ turns[k].i < PollBudget
  /\ turns' = [turns EXCEPT ![k] =
                 IF r = "error"
                 THEN OnPollError([@ EXCEPT !.seen = Append(@, r)])
                 ELSE IF StopsPolling(r)
                 THEN [@ EXCEPT !.pc = "AfterPoll", !.status = r, !.seen = Append(@, r)]
                 ELSE [@ EXCEPT !.status = r, !.i = @ + 1, !.seen = Append(@, r)]]
  /\ UNCHANGED <<clients, messages, threads, runs, sent, notTurn>>

\* the loop has ended, by break or with i = 10: status != "completed" -> log
\* and return
PollTest(k) ==
  /\ \/ turns[k].pc = "AfterPoll"
     \/ turns[k].pc = "GetRun" /\ turns[k].i >= PollBudget
  /\ turns' = [turns EXCEPT ![k] =
                 IF RunCompleted(turns[k].status)
                 THEN [@ EXCEPT !.pc = "GetLastAssistantText", !.i = 0]
                 ELSE Abort(@, "run not completed")]
  /\ UNCHANGED <<clients, messages, threads, runs, sent, notTurn>>

\* the next step of turn k
PollStep(k) ==
  /\ k \in DOMAIN turns
  /\ \/ GetOrCreateClient(k)
     \/ CreateThread(k)
     \/ SetClientThread(k)
     \/ InsertUserMessage(k)
     \/ AddUserMessage(k)
     \/ CreateRun(k)
     \/ \E r \in PollAnswers : PollRound(k, r)
     \/ PollTest(k)
     \/ GetLastAssistantText(k)
     \/ InsertAssistantMessage(k)
     \/ SendText(k)

PollNext ==
  \/ \E f \in Flushes : Len(turns) < MaxPolling /\ StartTurn(f)
  \/ \E k \in DOMAIN turns : PollStep(k)

PollSpec == Init /\ [][PollNext]_vars

\* the goroutine of a turn is scheduled as long as it can run, and every call
\* it makes returns
PollLive == PollSpec /\ \A k \in 1..MaxPolling : WF_vars(PollStep(k))

\* ================================================================ webhook
\* ServeHTTP with parsePayload, extractPhoneFromJID and normalizeInput. A
\* request body is a JSON document, or a text that is no JSON; the bytes on the
\* wire are its encoding.
MaxRequests == 2

Str(chars) == [k |-> "str", v |-> chars]

Bool(b) == [k |-> "bool", v |-> b]

\* an object: its members in order, each a pair of key and value
Obj(members) == [k |-> "obj", v |-> members]

Arr(items) == [k |-> "arr", v |-> items]

\* a body that is no JSON document
Text(chars) == [k |-> "text", v |-> chars]

Quote(chars) == <<"\"">> \o chars \o <<"\"">>

RECURSIVE Encode(_), EncodeMembers(_), EncodeItems(_)
\* the bytes of a document
Encode(d) ==
  CASE d.k = "str" -> Quote(d.v)
    [] d.k = "bool" -> IF d.v THEN <<"t", "r", "u", "e">> ELSE <<"f", "a", "l", "s", "e">>
    [] d.k = "obj" -> <<"{">> \o EncodeMembers(d.v) \o <<"}">>
    [] d.k = "arr" -> <<"[">> \o EncodeItems(d.v) \o <<"]">>
    [] d.k = "text" -> d.v

EncodeMembers(ms) ==
  IF ms = << >> THEN << >>
  ELSE Quote(ms[1][1]) \o <<":">> \o Encode(ms[1][2])
       \o (IF Len(ms) > 1 THEN <<",">> \o EncodeMembers(Tail(ms)) ELSE << >>)

EncodeItems(ds) ==
  IF ds = << >> THEN << >>
  ELSE Encode(ds[1]) \o (IF Len(ds) > 1 THEN <<",">> \o EncodeItems(Tail(ds)) ELSE << >>)

\* the member of object d under key (Absent: d is no object or has none)
Absent == [k |-> "absent", v |-> << >>]

Member(d, key) ==
  IF d.k = "obj" /\ \E i \in DOMAIN d.v : d.v[i][1] = key
  THEN d.v[CHOOSE i \in DOMAIN d.v : d.v[i][1] = key][2]
  ELSE Absent

\* a string field of a decoded struct: the zero value unless the member is a string
StringOf(d) == IF d.k = "str" THEN d.v ELSE Empty

\* a bool field of a decoded struct
BoolOf(d) == d.k = "bool" /\ d.v

\* ---- chat addresses
Digits == {"0", "1", "2", "3", "4", "5", "6", "7", "8", "9"}

DirectSuffixes == {<<"@", "s", ".", "w", "h", "a", "t", "s", "a", "p", "p", ".", "n", "e", "t">>, <<"@", "c", ".", "u", "s">>}

\* @s\.whatsapp\.net | @c\.us | @g\.us | @newsletter
JIDSuffixes == DirectSuffixes \cup {<<"@", "g", ".", "u", "s">>, <<"@", "n", "e", "w", "s", "l", "e", "t", "t", "e", "r">>}

\* the length of the run of digits of s that starts at i
RECURSIVE DigitRun(_, _)
DigitRun(s, i) == IF i <= Len(s) /\ s[i] \in Digits THEN 1 + DigitRun(s, i + 1) ELSE 0

\* the suffix of JIDSuffixes that s has at position i (Empty: none)
SuffixAt(s, i) ==
  LET S == {x \in JIDSuffixes : i + Len(x) - 1 <= Len(s) /\ SubSeq(s, i, i + Len(x) - 1) = x}
  IN IF S = {} THEN Empty ELSE CHOOSE x \in S : TRUE

\* chatIDRe.FindStringSubmatch(jid): ^(\d+)(?:@s\.whatsapp\.net|@c\.us|@g\.us|@newsletter)$
\* the whole match and the group, or nothing
chatIDRe(jid) ==
  LET n == DigitRun(jid, 1)
  IN IF n > 0 /\ SuffixAt(jid, n + 1) # Empty /\ n + Len(SuffixAt(jid, n + 1)) = Len(jid)
     THEN <<jid, SubSeq(jid, 1, n)>> ELSE << >>

\* anyJIDRe.FindStringSubmatch(s): (\d+@(?:s\.whatsapp\.net|c\.us|g\.us|newsletter)),
\* the leftmost match and the group, or nothing
anyJIDRe(s) ==
  LET At(i) == DigitRun(s, i) > 0 /\ SuffixAt(s, i + DigitRun(s, i)) # Empty
      S == {i \in DOMAIN s : At(i)}
  IN IF S = {} THEN << >>
     ELSE LET i == CHOOSE x \in S : \A y \in S : x <= y
              m == SubSeq(s, i, i + DigitRun(s, i) + Len(SuffixAt(s, i + DigitRun(s, i))) - 1)
          IN <<m, m>>

\* extractPhoneFromJID: the phone and ok
extractPhoneFromJID(jid) ==
  LET m == chatIDRe(TrimSpace(jid))
  IN IF Len(m) = 2 THEN [phone |-> m[2], ok |-> TRUE] ELSE [phone |-> Empty, ok |-> FALSE]

\* ---- incomingMessage
\* the zero incomingMessage
ZeroMessage ==
  [MessageType |-> Empty, Content |-> Absent, Sender |-> Empty, ChatID |-> Empty,
   ChatID2 |-> Empty, MessageID |-> Empty, MessageID2 |-> Empty,
   ButtonOrListID |-> Empty, FromMe |-> FALSE, WasSentByAPI |-> FALSE]

\* json.Unmarshal of document d into an incomingMessage
DecodeMessage(d) ==
  [MessageType |-> StringOf(Member(d, <<"m", "e", "s", "s", "a", "g", "e", "T", "y", "p", "e">>)),
   Content |-> Member(d, <<"c", "o", "n", "t", "e", "n", "t">>),
   Sender |-> StringOf(Member(d, <<"s", "e", "n", "d", "e", "r">>)),
   ChatID |-> StringOf(Member(d, <<"c", "h", "a", "t", "i", "d">>)),
   ChatID2 |-> StringOf(Member(d, <<"c", "h", "a", "t", "I", "d">>)),
   MessageID |-> StringOf(Member(d, <<"m", "e", "s", "s", "a", "g", "e", "i", "d">>)),
   MessageID2 |-> StringOf(Member(d, <<"m", "e", "s", "s", "a", "g", "e", "I", "d">>)),
   ButtonOrListID |-> StringOf(Member(d, <<"b", "u", "t", "t", "o", "n", "O", "r", "L", "i", "s", "t", "i", "d">>)),
   FromMe |-> BoolOf(Member(d, <<"f", "r", "o", "m", "M", "e">>)),
   WasSentByAPI |-> BoolOf(Member(d, <<"w", "a", "s", "S", "e", "n", "t", "B", "y", "A", "p", "i">>))]

\* incomingMessage.norm; no request of Payloads has an "id" member, so
\* MessageIDAlt is always empty and is left out
norm(m) ==
  [m EXCEPT !.ChatID = IF m.ChatID = Empty /\ m.ChatID2 # Empty THEN m.ChatID2 ELSE @,
            !.MessageID = IF m.MessageID = Empty /\ m.MessageID2 # Empty
                          THEN m.MessageID2 ELSE @]

\* a parsePayload without the scan of the raw bytes
ScanRawNever(trimmed) == << >>

\* anyJIDRe.FindStringSubmatch(string(trimmed)) at the end of parsePayload
ScanRaw(trimmed) == anyJIDRe(trimmed)

\* parsePayload: the event, the raw bytes and whether it failed. An array
\* stands for its first element; then the shapes body.chat + body.message,
\* body.message, message and the flat one, the first that has a chat or a
\* sender; then the scan of the raw bytes.
parsePayload(d) ==
  LET first == d.k = "arr" /\ Len(d.v) > 0
      cur == IF first THEN d.v[1] ELSE d
      raw == Encode(cur)
      trimmed == TrimSpace(raw)
      inner == norm(DecodeMessage(Member(Member(cur, <<"b", "o", "d", "y">>), <<"m", "e", "s", "s", "a", "g", "e">>)))
      chat == Member(Member(cur, <<"b", "o", "d", "y">>), <<"c", "h", "a", "t">>)
      WaChatID == StringOf(Member(chat, <<"w", "a", "_", "c", "h", "a", "t", "i", "d">>))
      WaLastMessageSender == StringOf(Member(chat, <<"w", "a", "_", "l", "a", "s", "t", "M", "e", "s", "s", "a", "g", "e", "S", "e", "n", "d", "e", "r">>))
      env == IF inner.ChatID # Empty THEN inner
             ELSE IF WaChatID # Empty THEN [inner EXCEPT !.ChatID = WaChatID]
             ELSE IF WaLastMessageSender # Empty
             THEN [inner EXCEPT !.ChatID = WaLastMessageSender]
             ELSE inner
      top == norm(DecodeMessage(Member(cur, <<"m", "e", "s", "s", "a", "g", "e">>)))
      flat == norm(DecodeMessage(cur))
      Has(m) == m.ChatID # Empty \/ m.Sender # Empty
      m == ScanRaw(trimmed)
  IN IF cur.k = "obj" /\ Has(env) THEN [msg |-> env, raw |-> raw, err |-> FALSE]
     ELSE IF cur.k = "obj" /\ Has(inner) THEN [msg |-> inner, raw |-> raw, err |-> FALSE]
     ELSE IF cur.k = "obj" /\ Has(top) THEN [msg |-> top, raw |-> raw, err |-> FALSE]
     ELSE IF cur.k = "obj" /\ Has(flat) THEN [msg |-> flat, raw |-> raw, err |-> FALSE]
     ELSE IF Len(m) = 2
     THEN [msg |-> [ZeroMessage EXCEPT !.ChatID = m[2]], raw |-> raw, err |-> FALSE]
     ELSE [msg |-> ZeroMessage, raw |-> raw, err |-> TRUE]

\* ---- normalizeInput
RECURSIVE Without(_, _)
\* strings.ReplaceAll(s, c, "") for every c of cs
Without(s, cs) ==
  IF s = << >> THEN << >>
  ELSE IF s[1] \in cs THEN Without(Tail(s), cs) ELSE <<s[1]>> \o Without(Tail(s), cs)

\* the characters U+3010 and U+3011, each one element of a string
LeftLenticular == "U+3010"

RightLenticular == "U+3011"

\* processor.SanitizeText
SanitizeText(s) == TrimSpace(Without(s, {LeftLenticular, RightLenticular}))

\* what the gateway and the engine answer to the calls of normalizeInput
Transcript == <<"o", "k", " ">>

Description == <<"H", "i">>

Extracted == <<"H", "i">>

\* normalizeInput: the text, the kind, whether it failed and the calls it
\* made, each with whether it succeeded; download, ai and pdf tell whether
\* the calls to the gateway and to the engine and the extraction of the text
\* of a PDF succeed
normalizeInput(msg, download, ai, pdf) ==
  LET mt == ToLower(msg.MessageType)
      content == StringOf(msg.Content)
      Fail(calls) == [text |-> Empty, kind |-> Empty, err |-> TRUE, calls |-> calls]
      Done(text, kind, calls) ==
        [text |-> SanitizeText(text), kind |-> kind, err |-> FALSE, calls |-> calls]
  IN CASE mt \in {<<"e", "x", "t", "e", "n", "d", "e", "d", "t", "e", "x", "t", "m", "e", "s", "s", "a", "g", "e">>, <<"c", "o", "n", "v", "e", "r", "s", "a", "t", "i", "o", "n">>} ->
            Done(IF content # Empty THEN content
                 ELSE IF msg.ButtonOrListID # Empty THEN msg.ButtonOrListID
                 ELSE <<"(", "m", "e", "n", "s", "a", "g", "e", "m", " ", "v", "a", "z", "i", "a", ")">>, KindText, << >>)
       [] mt \in {<<"a", "u", "d", "i", "o", "m", "e", "s", "s", "a", "g", "e">>, <<"a", "u", "d", "i", "o">>} ->
            IF ~download THEN Fail(<<[call |-> "DownloadByMessageID", ok |-> FALSE]>>)
            ELSE IF ~ai THEN Fail(<<[call |-> "DownloadByMessageID", ok |-> TRUE],
                                  [call |-> "Transcribe", ok |-> FALSE]>>)
            ELSE Done(Transcript, KindAudio, <<[call |-> "DownloadByMessageID", ok |-> TRUE],
                        [call |-> "Transcribe", ok |-> TRUE]>>)
       [] mt \in {<<"i", "m", "a", "g", "e", "m", "e", "s", "s", "a", "g", "e">>, <<"i", "m", "a", "g", "e">>} ->
            IF ~download THEN Fail(<<[call |-> "DownloadByMessageID", ok |-> FALSE]>>)
            ELSE IF ~ai THEN Fail(<<[call |-> "DownloadByMessageID", ok |-> TRUE],
                                  [call |-> "VisionDescribe", ok |-> FALSE]>>)
            ELSE Done(<<"D", "e", "s", "c", "r", "i", "ç", "ã", "o", " ", "d", "a", " ", "i", "m", "a", "g", "e", "m", ":", " ">> \o Description, <<"i", "m", "a", "g", "e">>,
                      <<[call |-> "DownloadByMessageID", ok |-> TRUE],
                        [call |-> "VisionDescribe", ok |-> TRUE]>>)
       [] mt \in {<<"d", "o", "c", "u", "m", "e", "n", "t", "m", "e", "s", "s", "a", "g", "e">>, <<"d", "o", "c", "u", "m", "e", "n", "t">>} ->
            IF ~download THEN Fail(<<[call |-> "DownloadByMessageID", ok |-> FALSE]>>)
            ELSE IF ~ai
            THEN Done(IF pdf THEN Extracted ELSE <<"(", "n", "ã", "o", " ", "f", "o", "i", " ", "p", "o", "s", "s", "í", "v", "e", "l", " ", "e", "x", "t", "r", "a", "i", "r", " ", "t", "e", "x", "t", "o", " ", "d", "o", " ", "P", "D", "F", ")">>,
                      <<"d", "o", "c", "u", "m", "e", "n", "t">>, <<[call |-> "DownloadByMessageID", ok |-> TRUE],
                        [call |-> "ExtractPDFText", ok |-> pdf],
                        [call |-> "SummarizeText", ok |-> ai]>>)
            ELSE Done(<<"R", "e", "s", "u", "m", "o", " ", "d", "o", " ", "d", "o", "c", "u", "m", "e", "n", "t", "o", ":", " ">> \o Description, <<"d", "o", "c", "u", "m", "e", "n", "t">>,
                      <<[call |-> "DownloadByMessageID", ok |-> TRUE],
                        [call |-> "ExtractPDFText", ok |-> pdf],
                        [call |-> "SummarizeText", ok |-> ai]>>)
       [] OTHER ->
            Done(IF content # Empty THEN content
                 ELSE <<"(", "m", "e", "n", "s", "a", "g", "e", "m", " ", "n", "ã", "o", " ", "s", "u", "p", "o", "r", "t", "a", "d", "a", ":", " ">> \o msg.MessageType \o <<")">>,
                 KindText, << >>)

\* ---- requests
\* the requests the gateway (or anyone) posts
Payloads ==
  << [method |-> "POST", body |-> Obj(<< <<<<"c", "h", "a", "t", "i", "d">>, Str(<<"5", "@", "c", ".", "u", "s">>)>>,
                                         <<<<"m", "e", "s", "s", "a", "g", "e", "T", "y", "p", "e">>, Str(<<"C", "o", "n", "v", "e", "r", "s", "a", "t", "i", "o", "n">>)>>,
                                         <<<<"c", "o", "n", "t", "e", "n", "t">>, Str(<<"H", "i">>)>> >>)],
     [method |-> "POST", body |-> Obj(<< <<<<"b", "o", "d", "y">>, Obj(<< <<<<"m", "e", "s", "s", "a", "g", "e">>,
                                         Obj(<< <<<<"c", "h", "a", "t", "I", "d">>, Str(<<"5", "@", "c", ".", "u", "s">>)>>,
                                                <<<<"f", "r", "o", "m", "M", "e">>, Bool(TRUE)>>,
                                                <<<<"c", "o", "n", "t", "e", "n", "t">>, Str(<<"o", "k">>)>> >>)>> >>)>> >>)],
     [method |-> "POST", body |-> Obj(<< <<<<"m", "e", "s", "s", "a", "g", "e">>,
                                         Obj(<< <<<<"c", "h", "a", "t", "i", "d">>, Str(<<"5", "@", "c", ".", "u", "s">>)>>,
                                                <<<<"w", "a", "s", "S", "e", "n", "t", "B", "y", "A", "p", "i">>, Bool(TRUE)>>,
                                                <<<<"m", "e", "s", "s", "a", "g", "e", "T", "y", "p", "e">>, Str(<<"A", "u", "d", "i", "o", "M", "e", "s", "s", "a", "g", "e">>)>> >>)>> >>)],
     [method |-> "POST", body |-> Obj(<< <<<<"c", "h", "a", "t", "i", "d">>, Str(<<"5", "@", "g", ".", "u", "s">>)>>,
                                         <<<<"c", "o", "n", "t", "e", "n", "t">>, Str(<<"H", "i">>)>> >>)],
     [method |-> "POST", body |-> Obj(<< <<<<"s", "e", "n", "d", "e", "r">>, Str(<<"5", "@", "n", "e", "w", "s", "l", "e", "t", "t", "e", "r">>)>> >>)],
     [method |-> "POST", body |-> Obj(<< <<<<"k", "e", "y">>, Obj(<< <<<<"r", "e", "m", "o", "t", "e", "J", "i", "d">>,
                                         Str(<<"7", "@", "s", ".", "w", "h", "a", "t", "s", "a", "p", "p", ".", "n", "e", "t">>)>> >>)>> >>)],
     [method |-> "POST", body |-> Text(<<" ", "f", "r", "o", "m", " ", "5", "@", "c", ".", "u", "s", " ">>)],
     [method |-> "POST", body |-> Obj(<< <<<<"x">>, Str(Empty)>> >>)],
     [method |-> "POST", body |-> Obj(<< <<<<"c", "h", "a", "t", "i", "d">>, Str(<<"a", "b", "c">>)>> >>)],
     [method |-> "POST", body |-> Arr(<< Obj(<< <<<<"c", "h", "a", "t", "i", "d">>, Str(<<"7", "@", "c", ".", "u", "s">>)>>,
                                                <<<<"m", "e", "s", "s", "a", "g", "e", "T", "y", "p", "e">>, Str(<<"a", "u", "d", "i", "o", "M", "e", "s", "s", "a", "g", "e">>)>>,
                                                <<<<"m", "e", "s", "s", "a", "g", "e", "i", "d">>, Str(<<"m", "1">>)>> >>) >>)],
     [method |-> "POST", body |-> Obj(<< <<<<"b", "o", "d", "y">>, Obj(<<
                                         <<<<"c", "h", "a", "t">>, Obj(<< <<<<"w", "a", "_", "c", "h", "a", "t", "i", "d">>, Str(<<"5", "@", "c", ".", "u", "s">>)>> >>)>>,
                                         <<<<"m", "e", "s", "s", "a", "g", "e">>, Obj(<< <<<<"c", "o", "n", "t", "e", "n", "t">>, Str(<<LeftLenticular, "H", "i", RightLenticular>>)>>,
                                                <<<<"m", "e", "s", "s", "a", "g", "e", "T", "y", "p", "e">>, Str(<<"D", "o", "c", "u", "m", "e", "n", "t", "M", "e", "s", "s", "a", "g", "e">>)>> >>)>> >>)>> >>)],
     [method |-> "GET", body |-> Obj(<< <<<<"c", "h", "a", "t", "i", "d">>, Str(<<"5", "@", "c", ".", "u", "s">>)>> >>)],
     [method |-> "POST", body |-> Obj(<< <<<<"c", "h", "a", "t", "i", "d">>, Str(<<"7", "@", "c", ".", "u", "s">>)>>,
                                         <<<<"m", "e", "s", "s", "a", "g", "e", "T", "y", "p", "e">>, Str(<<"i", "m", "a", "g", "e">>)>> >>)],
     [method |-> "POST", body |-> Text(<<"o", "i">>)] >>

\* a webhook that goes on after a parse error
ParseFailedNever(p) == FALSE

\* err != nil after parsePayload
ParseFailed(p) == p.err

\* a webhook that takes only fromMe for an echo
IsEchoFromMe(msg) == msg.FromMe

\* msg.FromMe || msg.WasSentByAPI
IsEcho(msg) == msg.FromMe \/ msg.WasSentByAPI

\* ServeHTTP for request i; dbok, download, ai, pdf and insok tell whether
\* GetOrCreateClient, the downloads from the gateway, the calls to the engine,
\* the extraction of a PDF and InsertMessage succeed
ServeHTTP(i, dbok, download, ai, pdf, insok) ==
  /\ Len(responses) < MaxRequests
  /\ LET r == Payloads[i]
         n == Len(responses) + 1
         p == parsePayload(r.body)
         msg == p.msg
         byChat == extractPhoneFromJID(msg.ChatID)
         bySender == IF ~byChat.ok /\ msg.Sender # Empty
                     THEN extractPhoneFromJID(msg.Sender) ELSE byChat
         m == anyJIDRe(p.raw)
         found == IF ~bySender.ok /\ Len(m) = 2 THEN extractPhoneFromJID(m[2])
                  ELSE bySender
         in == normalizeInput(msg, download, ai, pdf)
         Answer(code, body) ==
           responses' = Append(responses, [req |-> i, code |-> code, body |-> body])
         Called(cs) ==
           extcalls' = extcalls \o [j \in DOMAIN cs |->
                                      [call |-> cs[j].call, ok |-> cs[j].ok, by |-> n]]
     IN IF r.method # "POST"
        THEN /\ Answer(405, "method not allowed")
             /\ UNCHANGED <<upserts, messages, appended, extcalls>>
        ELSE IF ParseFailed(p)
        THEN /\ Answer(400, "invalid json")
             /\ UNCHANGED <<upserts, messages, appended, extcalls>>
        ELSE IF IsEcho(msg)
        THEN /\ Answer(200, "ignored fromMe")
             /\ UNCHANGED <<upserts, messages, appended, extcalls>>
        ELSE IF ~found.ok
        THEN /\ Answer(400, "invalid chatid")
             /\ UNCHANGED <<upserts, messages, appended, extcalls>>
        ELSE IF ~dbok
        THEN /\ Answer(500, "db error")
             /\ UNCHANGED <<upserts, messages, appended, extcalls>>
        ELSE IF in.err
        THEN /\ Answer(500, "normalize error")
             /\ upserts' = Append(upserts, [phone |-> found.phone, by |-> n])
             /\ Called(in.calls)
             /\ UNCHANGED <<messages, appended>>
        ELSE /\ Answer(200, "ok")
             /\ upserts' = Append(upserts, [phone |-> found.phone, by |-> n])
             /\ Called(in.calls)
             /\ messages' = IF insok
                            THEN Append(messages, [client |-> found.phone, role |-> "user",
                                                   type |-> "text", content |-> in.text,
                                                   by |-> n])
                            ELSE messages
             /\ appended' = Append(appended, [phone |-> found.phone, text |-> in.text,
                                              by |-> n])
  /\ UNCHANGED <<clients, threads, runs, sent, turns, notHook>>

HookNext ==
  \E i \in DOMAIN Payloads, dbok, download, ai, pdf, insok \in BOOLEAN :
     ServeHTTP(i, dbok, download, ai, pdf, insok)

HookSpec == Init /\ [][HookNext]_vars

\* ================================================================ gateway
\* The client of the gateway (package uazapi). One step is one HTTP exchange
\* (doJSONOnce, or the GET of the media bytes) together with the control flow
\* up to the next exchange or to the return of the call.

\* Client.maxRetries, as New or WithRetry set it
maxRetries == 1

\* Client.minVisibleMs and Client.waitPulseMs, as New sets them
MinVisibleMs == 1000

WaitPulseMs == 5500

\* the length of step from which sendWaitPulsed pauses between two pulses
PulseGap == 2000

\* body["delay"] after the pulses
ShortDelay == 300

\* the delayMs the callers pass
Delays == {0, 500, 6000}

defaultTextPaths ==
  <<"/send/text", "/api/send/text", "/send-text", "/api/send-text",
    "/message/text", "/api/message/text", "/messages/text", "/api/messages/text">>

defaultMediaPaths ==
  <<"/send/media", "/api/send/media", "/send-media", "/api/send-media",
    "/message/media", "/api/message/media", "/messages/media", "/api/messages/media">>

\* the two routes of tryWait
WaitPaths == <<"/wait", "/send/wait">>

\* the paths of the kind of exchange
PathsOf(kind) ==
  CASE kind = "text" -> defaultTextPaths
    [] kind = "media" -> defaultMediaPaths
    [] kind = "wait" -> WaitPaths
    [] OTHER -> <<"/message/download">>

\* errors of http.Client.Do: a timeout, a reset reported by a transport that
\* does not wrap it in a net.Error, a refused connection wrapped in a
\* *url.Error, and the error of a cancelled context
ErrTimeout == [text |-> "i/o timeout", net |-> TRUE, timeout |-> TRUE, temporary |-> TRUE]

ErrReset ==
  [text |-> "connection reset by peer", net |-> FALSE, timeout |-> FALSE,
   temporary |-> FALSE]

ErrRefused ==
  [text |-> "connection refused", net |-> TRUE, timeout |-> FALSE, temporary |-> FALSE]

ErrCanceled ==
  [text |-> "context canceled", net |-> TRUE, timeout |-> FALSE, temporary |-> FALSE]

\* the messages that contain "connection reset", "connection refused",
\* "broken pipe" or "unexpected eof"
TransientTexts ==
  {"connection reset by peer", "connection refused", "broken pipe", "unexpected EOF"}

isRetryableNetErr(err) ==
  IF err = NoErr THEN FALSE
  ELSE IF err.net THEN err.timeout \/ err.temporary
  ELSE err.text \in TransientTexts

\* the status codes the gateway answers
Codes == {200, 404, 503}

\* what one exchange can give: a status, or an error of the transport; once the
\* context is cancelled every exchange fails with its error
Answers(cancelled) ==
  IF cancelled THEN {[code |-> 0, err |-> ErrCanceled]}
  ELSE {[code |-> c, err |-> NoErr] : c \in Codes}
       \cup {[code |-> 0, err |-> e] : e \in {ErrTimeout, ErrReset, ErrRefused}}

\* a client that retries once more than maxRetries
MayRetryOnceMore(try) == try <= maxRetries + 1

\* try <= c.maxRetries
MayRetry(try) == try <= maxRetries

\* a client that retries every status from 400 on
RetryableFrom400(code) == code >= 400 /\ code <= 599

\* code >= 500 && code <= 599
RetryableStatus(code) == code >= 500 /\ code <= 599

\* code >= 200 && code < 300
Is2xx(code) == code >= 200 /\ code < 300

\* one round of the loop of doJSONWithRetry, after doJSONOnce gave (code, b,
\* err) at attempt try: go round again, or return
doJSONWithRetry(try, code, b, err) ==
  IF err # NoErr
  THEN IF MayRetry(try) /\ isRetryableNetErr(err)
       THEN [again |-> TRUE, code |-> 0, body |-> 0, err |-> err]
       ELSE [again |-> FALSE, code |-> 0, body |-> 0, err |-> err]
  ELSE IF Is2xx(code) THEN [again |-> FALSE, code |-> code, body |-> b, err |-> NoErr]
  ELSE IF RetryableStatus(code) /\ MayRetry(try)
  THEN [again |-> TRUE, code |-> code, body |-> b, err |-> NoErr]
  ELSE [again |-> FALSE, code |-> code, body |-> b, err |-> NoErr]

\* a client that never takes an answer for a success
SucceededNever(code, err) == FALSE

\* err == nil && code >= 200 && code < 300
Succeeded(code, err) == err = NoErr /\ Is2xx(code)

\* a client that keeps the outcome of the first route that failed
KeepFirst(last, code, b, err) ==
  IF last = [code |-> 0, body |-> 0, err |-> NoErr]
  THEN [code |-> code, body |-> b, err |-> err] ELSE last

\* lastCode, lastBody, lastErr = code, b, err
KeepLast(last, code, b, err) == [code |-> code, body |-> b, err |-> err]

\* the error a send returns after its last route
SendError(op, last) ==
  IF last.err # NoErr THEN [kind |-> "net", err |-> last.err]
  ELSE [kind |-> "status", what |-> op, code |-> last.code, body |-> last.body]

\* the exchange just made, and the counts of exchanges
Exchanged(g, kind, idx, out, link) ==
  [g EXCEPT !.wire = [kind |-> kind, idx |-> idx, code |-> out.code,
                      body |-> g.made + 1, err |-> out.err, link |-> link],
            !.before = IF g.wire.kind = kind /\ g.wire.idx = idx THEN g.wire.code ELSE 0,
            !.n = IF g.wire.kind = kind /\ g.wire.idx = idx THEN @ + 1 ELSE 1,
            !.made = @ + 1,
            !.waitFailed = @ \/ (kind = "wait" /\ ~(out.err = NoErr /\ out.code < 300))]

\* the call returns
Returned(g, result) == [g EXCEPT !.pc = "done", !.result = result]

\* the loop over the routes starts
ToRoutes(g) == [g EXCEPT !.pc = "routes", !.i = 1, !.try = 1]

\* a client for which an error of the pulses fails the send
WaitErrorReturns(err) == err # NoErr

\* SendTextWithDelay logs the error of sendWaitPulsed (when logReq) and goes on
WaitErrorFails(err) == FALSE

\* after sendWaitPulsed returned err: the text is sent with the short delay
AfterWait(g, err) ==
  IF WaitErrorFails(err) THEN Returned(g, [kind |-> "net", err |-> err])
  ELSE [ToRoutes(g) EXCEPT !.delay = ShortDelay]

\* SendTextWithDelay up to its first exchange: the delay is raised to the
\* visible minimum; with useLegacyWait the pulses come first
SendTextWithDelay(delayMs, useLegacyWait) ==
  /\ gw.pc = "idle"
  /\ LET d == IF delayMs > 0 /\ delayMs < MinVisibleMs THEN MinVisibleMs ELSE delayMs
         g == [gw EXCEPT !.op = "text", !.delay = d]
     IN gw' = IF useLegacyWait /\ d > 0
              THEN [g EXCEPT !.pc = "wait", !.i = 1, !.try = 1, !.remaining = d,
                             !.step = IF d < WaitPulseMs THEN d ELSE WaitPulseMs]
              ELSE ToRoutes(g)
  /\ UNCHANGED notGate

\* one exchange of tryWait, inside sendWaitPulsed
WaitRequest(out) ==
  /\ gw.pc = "wait"
  /\ LET g == Exchanged(gw, "wait", gw.i, out, "")
         r == doJSONWithRetry(gw.try, out.code, g.wire.body, out.err)
         left == gw.remaining - gw.step
     IN gw' = IF r.again THEN [g EXCEPT !.try = @ + 1]
              ELSE IF ~(r.err = NoErr /\ r.code < 300) /\ gw.i = 1
              THEN [g EXCEPT !.i = 2, !.try = 1]
              ELSE IF left <= 0 THEN AfterWait([g EXCEPT !.remaining = left], NoErr)
              ELSE IF gw.step >= PulseGap /\ gw.cancelled
              THEN AfterWait([g EXCEPT !.remaining = left], ErrCanceled)
              ELSE [g EXCEPT !.remaining = left, !.i = 1, !.try = 1,
                             !.step = IF left < WaitPulseMs THEN left ELSE WaitPulseMs]
  /\ UNCHANGED notGate

\* SendMediaWithDelay up to its first exchange
SendMediaWithDelay(delayMs) ==
  /\ gw.pc = "idle"
  /\ LET d == IF delayMs > 0 /\ delayMs < MinVisibleMs THEN MinVisibleMs ELSE delayMs
     IN gw' = ToRoutes([gw EXCEPT !.op = "media", !.delay = d])
  /\ UNCHANGED notGate

\* a client for which an error of the transport on one route ends the send
RouteErrorReturns(err) == err # NoErr

\* the loop over the routes has no return for an error of doJSONWithRetry: it
\* keeps the error and goes on with the next route
RouteErrorFails(err) == FALSE

\* one exchange of the loop over the routes of SendTextWithDelay or
\* SendMediaWithDelay
RouteRequest(out) ==
  /\ gw.pc = "routes"
  /\ LET g == Exchanged(gw, gw.op, gw.i, out, "")
         r == doJSONWithRetry(gw.try, out.code, g.wire.body, out.err)
         last == KeepLast(gw.last, r.code, r.body, r.err)
     IN gw' = IF r.again THEN [g EXCEPT !.try = @ + 1]
              ELSE IF Succeeded(r.code, r.err) THEN Returned(g, [kind |-> "nil"])
              ELSE IF RouteErrorFails(r.err)
              THEN Returned([g EXCEPT !.last = last], SendError(gw.op, last))
              ELSE IF gw.i < Len(PathsOf(gw.op))
              THEN [g EXCEPT !.i = @ + 1, !.try = 1, !.last = last]
              ELSE Returned([g EXCEPT !.last = last], SendError(gw.op, last))
  /\ UNCHANGED notGate

\* DownloadByMessageID up to its first exchange
DownloadByMessageID ==
  /\ gw.pc = "idle"
  /\ gw' = [gw EXCEPT !.op = "download", !.pc = "link", !.i = 1, !.try = 1]
  /\ UNCHANGED notGate

\* what the descriptor holds: a link, an empty link, or no JSON
Links == {"u", "", "no json"}

\* one exchange with /message/download; link is what a 2xx answer holds
LinkRequest(out, link) ==
  /\ gw.pc = "link"
  /\ LET g == Exchanged(gw, "link", 1, out, IF Is2xx(out.code) THEN link ELSE "")
         r == doJSONWithRetry(gw.try, out.code, g.wire.body, out.err)
     IN gw' = IF r.again THEN [g EXCEPT !.try = @ + 1]
              ELSE IF r.err # NoErr THEN Returned(g, [kind |-> "net", err |-> r.err])
              ELSE IF r.code > 299
              THEN Returned(g, [kind |-> "status", what |-> "download",
                                code |-> r.code, body |-> r.body])
              ELSE IF link = "no json" THEN Returned(g, [kind |-> "json"])
              ELSE IF link = "" THEN Returned(g, [kind |-> "empty fileURL"])
              ELSE [g EXCEPT !.pc = "bytes", !.i = 1, !.try = 1]
  /\ UNCHANGED notGate

\* the GET of the bytes at the link: c.http.Do(req2), once
BytesRequest(out) ==
  /\ gw.pc = "bytes"
  /\ LET g == Exchanged(gw, "bytes", 1, out, gw.wire.link)
     IN gw' = IF out.err # NoErr THEN Returned(g, [kind |-> "net", err |-> out.err])
              ELSE IF out.code > 299
              THEN Returned(g, [kind |-> "status", what |-> "download media",
                                code |-> out.code, body |-> g.wire.body])
              ELSE Returned(g, [kind |-> "nil"])
  /\ UNCHANGED notGate

\* the context of the call is cancelled
Cancel ==
  /\ gw.pc \notin {"idle", "done"}
  /\ ~gw.cancelled
  /\ gw' = [gw EXCEPT !.cancelled = TRUE]
  /\ UNCHANGED notGate

\* the caller has the result; the client is ready for the next call
GateReturn ==
  /\ gw.pc = "done"
  /\ gw' = [op |-> "idle", pc |-> "idle", i |-> 0, try |-> 0, delay |-> 0,
            remaining |-> 0, step |-> 0, cancelled |-> FALSE,
            last |-> [code |-> 0, body |-> 0, err |-> NoErr],
            result |-> [kind |-> "none"],
            wire |-> NoWire, before |-> 0, n |-> 0, made |-> 0, waitFailed |-> FALSE]
  /\ UNCHANGED notGate

GateNext ==
  \/ \E d \in Delays, w \in BOOLEAN : SendTextWithDelay(d, w)
  \/ \E d \in Delays : SendMediaWithDelay(d)
  \/ DownloadByMessageID
  \/ \E out \in Answers(gw.cancelled) : WaitRequest(out)
  \/ \E out \in Answers(gw.cancelled) : RouteRequest(out)
  \/ \E out \in Answers(gw.cancelled), link \in Links : LinkRequest(out, link)
  \/ \E out \in Answers(gw.cancelled) : BytesRequest(out)
  \/ Cancel
  \/ GateReturn

GateSpec == Init /\ [][GateNext]_vars

\* ================================================================ store
\* Table clients (phone UNIQUE) under the statements of package models. Every
\* statement is one step: the database executes it atomically.

\* the number of statements executed
MaxStatements == 4

\* SQL NULL
Null == "NULL"

\* the names ServeHTTP and processCombinedMessage pass: a sender name, or nil
Names == {Null, "Ana", "Bia"}

\* the handles SetClientThread stores
Handles == {"thread_1", "thread_2"}

\* an upsert that takes the new name
TakeExcluded(old, new) == new

\* COALESCE(clients.name, EXCLUDED.name)
Coalesce(old, new) == IF old # Null THEN old ELSE new

\* the positions of the rows with that phone
RowsOf(phone) == {i \in DOMAIN table : table[i].phone = phone}

\* GetOrCreateClient: INSERT ... ON CONFLICT (phone) DO UPDATE SET name =
\* COALESCE(clients.name, EXCLUDED.name). The default of id is taken from the
\* sequence before the conflict is seen.
Upsert(phone, name) ==
  /\ Len(stmts) < MaxStatements
  /\ serial' = serial + 1
  /\ table' = IF RowsOf(phone) = {}
              THEN Append(table, [id |-> serial + 1, phone |-> phone, name |-> name,
                                  thread_id |-> Null])
              ELSE [i \in DOMAIN table |->
                      IF table[i].phone = phone
                      THEN [table[i] EXCEPT !.name = Coalesce(@, name)]
                      ELSE table[i]]
  /\ stmts' = Append(stmts, [op |-> "upsert", phone |-> phone, name |-> name])
  /\ UNCHANGED notStore

\* SetClientThread: UPDATE clients SET thread_id=$1 WHERE id=$2
UpdateThread(id, threadID) ==
  /\ Len(stmts) < MaxStatements
  /\ \E i \in DOMAIN table : table[i].id = id
  /\ table' = [i \in DOMAIN table |->
                 IF table[i].id = id THEN [table[i] EXCEPT !.thread_id = threadID]
                 ELSE table[i]]
  /\ stmts' = Append(stmts, [op |-> "update", id |-> id, thread_id |-> threadID])
  /\ UNCHANGED <<serial, notStore>>

StoreNext ==
  \/ \E phone \in Phones, name \in Names : Upsert(phone, name)
  \/ \E id \in 1..MaxStatements, threadID \in Handles : UpdateThread(id, threadID)

StoreSpec == Init /\ [][StoreNext]_vars

\* ================================================================ properties
AllSpace(s) == \A i \in 1..Len(s) : s[i] \in WhiteSpace

Trimmed(s) == s # << >> /\ s[1] \notin WhiteSpace /\ s[Len(s)] \notin WhiteSpace

\* the modality a kind string names
ModalityOf(kind) ==
  CASE kind = KindText -> KindText
    [] kind = KindAudioRaw -> KindAudio

RECURSIVE Collapse(_)
\* a sequence with consecutive equal elements collapsed
Collapse(s) ==
  IF Len(s) <= 1 THEN s
  ELSE LET r == Collapse(SubSeq(s, 1, Len(s) - 1))
       IN IF r[Len(r)] = s[Len(s)] THEN r ELSE Append(r, s[Len(s)])

Min(S) == CHOOSE x \in S : \A y \in S : x <= y

Max(S) == CHOOSE x \in S : \A y \in S : y <= x

\* the timer an AddMessage call armed (NoTimer while it has not written)
TimerOf(a) ==
  LET S == {t \in DOMAIN timers : timers[t].by = a}
  IN IF S = {} THEN NoTimer ELSE CHOOSE t \in S : TRUE

TimersOfPhone(p) == {t \in DOMAIN timers : timers[t].phone = p}

FlushesOfPhone(p) == {i \in DOMAIN flushed : flushed[i].phone = p}

\* the invocations of flushFunc that carry the fragment of call a
FlushesWith(a) ==
  {i \in DOMAIN flushed : \E j \in DOMAIN flushed[i].srcs : flushed[i].srcs[j] = a}

\* the trimmed texts of a sequence of calls
TextsOf(srcs) == [j \in DOMAIN srcs |-> TrimLeft(TrimRight(adds[srcs[j]].text))]

\* no call is running and no timer is armed or running
Quiet ==
  /\ \A a \in DOMAIN adds : adds[a].pc = "done"
  /\ \A t \in DOMAIN timers : timers[t].pc \in {"stopped", "done"}

\* C1: once everything has settled, every accepted fragment was flushed exactly
\* once, in a turn that holds the fragments in arrival order with consecutive
\* duplicates collapsed, and a fragment that arrived within the window of the
\* sender's previous one is in the same turn as that one.
C1_OneFlushPerBurst ==
  Quiet =>
    \A a \in DOMAIN adds :
      TimerOf(a) # NoTimer =>
        /\ Cardinality(FlushesWith(a)) = 1
        /\ \A i \in FlushesWith(a) :
             /\ flushed[i].phone = adds[a].phone
             /\ flushed[i].msgs = Collapse(TextsOf(flushed[i].srcs))
             /\ \A j, k \in DOMAIN flushed[i].srcs :
                  j < k => TimerOf(flushed[i].srcs[j]) < TimerOf(flushed[i].srcs[k])
             /\ adds[a].within =>
                  \E j \in DOMAIN flushed[i].srcs :
                    flushed[i].srcs[j] =
                      timers[Max({u \in TimersOfPhone(adds[a].phone) : u < TimerOf(a)})].by

C3_EntryRemovedBeforeCallback ==
  /\ \A i \in DOMAIN flushed : ~flushed[i].entry
  /\ \A a \in DOMAIN adds : ~adds[a].onold

\* C4: a flushIfCurrent call that finds no entry, or whose generation differs
\* from the buffer's, returns and changes nothing: no buffer field, no map
\* entry, no other timer, no invocation of flushFunc.
C4_StaleFlushNoEffect ==
  [][\A t \in DOMAIN timers :
       \/ /\ timers[t].pc = "fired"
          /\ timers'[t].pc # "fired"
          /\ buffers[timers[t].phone] = NoBuf
       \/ /\ timers[t].pc = "check"
          /\ timers'[t].pc # "check"
          /\ timers[t].gen # heap[timers[t].buf].gen
       => /\ heap' = heap
          /\ buffers' = buffers
          /\ flushed' = flushed
          /\ timers'[t].pc = "done"
          /\ \A u \in DOMAIN timers \ {t} : timers'[u] = timers[u]]_vars

\* a flushIfCurrent call returned on a generation mismatch
C4_Witness == \E t \in DOMAIN timers : timers[t].out = "stale"

\* C5: the timer behind every invocation of flushFunc was armed by the last
\* AddMessage of that sender to complete before the fragments were drained.
C5_FlushOnlyForSchedulingGeneration ==
  \A i \in DOMAIN flushed : flushed[i].by = flushed[i].last

\* the buffer write of call a happens in this step and its text repeats the
\* last buffered fragment
IsDupWrite(a) ==
  /\ adds[a].pc = "write"
  /\ adds'[a].pc = "done"
  /\ heap[adds[a].buf].msgs # << >>
  /\ heap[adds[a].buf].msgs[Len(heap[adds[a].buf].msgs)] = TrimLeft(TrimRight(adds[a].text))

\* C6 as stated: a duplicate fragment leaves the fragment list, lastKind, the
\* generation and the armed timer unchanged.
C6_DuplicateIsNoOp ==
  [][\A a \in DOMAIN adds :
       IsDupWrite(a) =>
         /\ heap'[adds[a].buf].msgs = heap[adds[a].buf].msgs
         /\ heap'[adds[a].buf].lastKind = heap[adds[a].buf].lastKind
         /\ heap'[adds[a].buf].gen = heap[adds[a].buf].gen
         /\ heap'[adds[a].buf].timer = heap[adds[a].buf].timer
         /\ timers' = timers]_vars

\* C6 amended: a duplicate fragment leaves the fragment list unchanged, and
\* still records its kind as lastKind, increments the generation, stops the
\* armed timer and arms a new one for a full window.
C6_DuplicateKeepsFragments ==
  [][\A a \in DOMAIN adds :
       IsDupWrite(a) =>
         LET o == heap[adds[a].buf]
             n == heap'[adds[a].buf]
         IN /\ n.msgs = o.msgs
            /\ n.lastKind = ModalityOf(adds[a].kind)
            /\ n.gen = o.gen + 1
            /\ n.timer \notin DOMAIN timers
            /\ timers'[n.timer].pc = "armed"
            /\ timers'[n.timer].left = Window
            /\ timers'[n.timer].gen = n.gen
            /\ o.timer # NoTimer => timers'[o.timer].pc # "armed"
            /\ buffers' = buffers
            /\ flushed' = flushed]_vars

\* a buffer holds fewer fragments than the calls written into it
C6_Witness == \E b \in DOMAIN heap : Len(heap[b].srcs) > Len(heap[b].msgs)

\* C7: every buffered, drained or flushed fragment is non-empty and trimmed,
\* and an AddMessage whose text is blank returns at once: no map entry, buffer
\* object, generation, timer or flush changes.
C7_BlankNeverBuffered ==
  /\ [](/\ \A b \in DOMAIN heap :
             \A i \in DOMAIN heap[b].msgs : Trimmed(heap[b].msgs[i])
        /\ \A t \in DOMAIN timers :
             \A i \in DOMAIN timers[t].msgs : Trimmed(timers[t].msgs[i])
        /\ \A f \in DOMAIN flushed :
             \A i \in DOMAIN flushed[f].msgs : Trimmed(flushed[f].msgs[i]))
  /\ [][(Len(adds') > Len(adds) /\ AllSpace(adds'[Len(adds')].text)) =>
          /\ adds'[Len(adds')].pc = "done"
          /\ UNCHANGED <<buffers, heap, timers, flushed>>]_vars

\* a blank call was made, and a padded fragment was flushed trimmed
C7_Witness ==
  /\ \E a \in DOMAIN adds : AllSpace(adds[a].text)
  /\ \E f \in DOMAIN flushed :
       \E j \in DOMAIN flushed[f].srcs :
         /\ adds[flushed[f].srcs[j]].text = OkPadded
         /\ \E i \in DOMAIN flushed[f].msgs : flushed[f].msgs[i] = Ok

\* C8: the lastKind given to flushFunc is the modality of the last call
\* written into the flushed buffer, whatever the kinds before it.
C8_LastKindIsLastFragmentKind ==
  \A f \in DOMAIN flushed :
    /\ flushed[f].srcs # << >>
    /\ flushed[f].lastKind =
         ModalityOf(adds[flushed[f].srcs[Len(flushed[f].srcs)]].kind)

\* a turn of mixed kinds was flushed
C8_Witness ==
  \E f \in DOMAIN flushed :
    /\ Len(flushed[f].srcs) >= 2
    /\ ModalityOf(adds[flushed[f].srcs[1]].kind) = KindText
    /\ flushed[f].lastKind = KindAudio

\* C9 as stated: the merged text is the fragments joined by a newline.
C9_NewlineJoinOnly ==
  \A f \in DOMAIN flushed : flushed[f].combined = Join(flushed[f].msgs, <<"\n">>)

ListTitle == <<"M", "e", "n", "s", "a", "g", "e", "n", "s", " ", "r", "e", "c", "e", "n", "t", "e", "s", " ", "d", "o", " ", "u", "s", "u", "á", "r", "i", "o", ":">>

RECURSIVE Items(_)
\* every fragment as a list item on a line of its own
Items(s) == IF s = << >> THEN << >> ELSE <<"\n", "-", " ">> \o Head(s) \o Items(Tail(s))

HiOpenTurn == <<"M", "e", "n", "s", "a", "g", "e", "n", "s", " ", "r", "e", "c", "e", "n", "t", "e", "s", " ", "d", "o", " ", "u", "s", "u", "á", "r", "i", "o", ":", "\n", "-", " ", "H", "i", "\n", "-", " ", "a", "r", "e", " ", "y", "o", "u", " ", "o", "p", "e", "n", "?">>

OkTurn == <<"M", "e", "n", "s", "a", "g", "e", "n", "s", " ", "r", "e", "c", "e", "n", "t", "e", "s", " ", "d", "o", " ", "u", "s", "u", "á", "r", "i", "o", ":", "\n", "-", " ", "o", "k">>

\* C9 amended: the merged text is the title line followed by every surviving
\* fragment as a "- " list item on its own line; the calls "Hi", "  ",
\* "are you open?" give the title and the items Hi and are you open?, and
\* the calls "ok", "ok" give the title and the single item ok.
C9_ListItemJoin ==
  /\ \A f \in DOMAIN flushed : flushed[f].combined = ListTitle \o Items(flushed[f].msgs)
  /\ \A f \in DOMAIN flushed :
       LET r == flushed[f]
           raw == [j \in DOMAIN r.srcs |-> adds[r.srcs[j]].text]
       IN /\ (Len(adds) = 3 /\ adds[2].text = Blank /\ r.srcs = <<1, 3>>
              /\ raw = <<Hi, AreYouOpen>>) => r.combined = HiOpenTurn
          /\ raw = <<Ok, Ok>> => r.combined = OkTurn

\* the calls "Hi", "  ", "are you open?" were flushed as one turn
C9_Witness ==
  /\ Len(adds) = 3
  /\ \A a \in DOMAIN adds : adds[a].phone = "p1"
  /\ <<adds[1].text, adds[2].text, adds[3].text>> = <<Hi, Blank, AreYouOpen>>
  /\ Len(flushed) = 1
  /\ flushed[1].combined = HiOpenTurn

\* buffer object b holds fragments or an armed timer
Active(b) ==
  \/ heap[b].msgs # << >>
  \/ heap[b].timer # NoTimer /\ timers[heap[b].timer].pc = "armed"

\* C10: a sender never has two buffer objects that hold fragments or an armed
\* timer.
C10_OneActivePair ==
  \A p \in Phones :
    Cardinality({b \in DOMAIN heap : heap[b].phone = p /\ Active(b)}) <= 1


\* ---------------------------------------------------------------- C11
\* inside a critical section: the next step of the goroutine is never blocked
InSection(g) ==
  gor[g].pc \in {"add.lookup", "add.write", "flush.lookup", "flush.check", "delete"}

\* the goroutine holding the mutex g is blocked on (NoOne: g is not blocked)
BlockedOn(g) ==
  CASE gor[g].pc \in {"add.lock.m", "flush.lock.m", "delete.lock.m"} -> mu
    [] gor[g].pc \in {"add.lock.buf", "flush.lock.buf"} -> bufmu[gor[g].buf]
    [] OTHER -> NoOne

\* C11: flushFunc is invoked while the flushing goroutine holds neither m.mu
\* nor any buf.mu, and an AddMessage call made by flushFunc for the same sender
\* is never blocked on a mutex its own goroutine holds: whoever holds the mutex
\* it waits for is another goroutine inside a critical section, which leaves it
\* at its next step, so the call goes on to its end.
C11_CallbackOutsideLocks ==
  \A g \in DOMAIN gor :
    /\ gor[g].pc = "flush.call" => HeldBy(g) = {}
    /\ gor[g].cb =>
         /\ BlockedOn(g) # g
         /\ BlockedOn(g) # NoOne => InSection(BlockedOn(g))

\* an AddMessage call made by flushFunc has returned and the flush that made it
\* has deleted the entry and returned, after the call had to wait for a mutex
C11_Witness ==
  \E g \in DOMAIN gor : gor[g].pc = "idle" /\ gor[g].cbdone

\* ---------------------------------------------------------------- C12
\* C12: once a sender's row holds a conversation handle, no step replaces it by
\* another handle.
C12_HandleSetOnce ==
  [][\A p \in Phones : clients[p].thread # NoThread =>
                         clients'[p].thread = clients[p].thread]_vars

\* ---------------------------------------------------------------- C13
\* what turn k left behind in the engine, the gateway and the history
AppendedBy(k) ==
  {h \in DOMAIN threads : \E j \in DOMAIN threads[h].msgs : threads[h].msgs[j].by = k}

RunsBy(k) == {r \in DOMAIN runs : runs[r].by = k}

SentBy(k) == {d \in DOMAIN sent : sent[d].by = k}

HistoryBy(k, role) == {m \in DOMAIN messages : messages[m].by = k /\ messages[m].role = role}

\* C13: a turn whose SetClientThread returned an error has appended no message
\* to a thread, started no run, dispatched nothing and written no history
\* record, and it has ended.
C13_PersistFailureAborts ==
  \A k \in DOMAIN turns :
    turns[k].err = "SetClientThread" =>
      /\ turns[k].pc = "done"
      /\ AppendedBy(k) = {}
      /\ RunsBy(k) = {}
      /\ SentBy(k) = {}
      /\ HistoryBy(k, "user") = {} /\ HistoryBy(k, "assistant") = {}

\* a turn minted a handle, failed to store it and ended, while another turn of
\* the same sender went all the way
C13_Witness ==
  \E k, j \in DOMAIN turns :
    /\ turns[k].err = "SetClientThread" /\ turns[k].pc = "done"
    /\ \E h \in DOMAIN threads : threads[h].by = k
    /\ turns[j].phone = turns[k].phone /\ turns[j].out = "ok"

\* ---------------------------------------------------------------- C14
\* C14: a turn whose polling ended with the run failed or expired, or with the
\* run still in progress after the last round, has ended, has dispatched
\* nothing through the gateway and has written no assistant-role record.
C14_NotCompletedAborts ==
  \A k \in DOMAIN turns :
    turns[k].status \in {"failed", "expired", "in_progress"} =>
      /\ turns[k].pc = "done"
      /\ turns[k].out = "run not completed"
      /\ SentBy(k) = {}
      /\ HistoryBy(k, "assistant") = {}

\* one turn ended on a failed run and another after every round of the loop
\* found the run in progress
C14_Witness ==
  \E k, j \in DOMAIN turns :
    /\ turns[k].pc = "done" /\ turns[k].status = "failed"
    /\ turns[j].pc = "done" /\ turns[j].status = "in_progress"
    /\ PollLoop(Script(PollBudget, "completed"), 0, "") = "in_progress"

\* ---------------------------------------------------------------- C15
\* C15: when the dispatch of a turn's reply through the gateway failed, the
\* history holds no assistant-role record of that reply.
C15_AssistantRecordAfterDispatch ==
  \A k \in DOMAIN turns :
    turns[k].out = "uazapi send text error" => HistoryBy(k, "assistant") = {}

\* ---------------------------------------------------------------- C16
\* C16: when appending the merged text to the thread failed, or the turn ended
\* before that, the history holds no user-role record of the merged turn.
C16_UserRecordAfterAppend ==
  \A k \in DOMAIN turns :
    turns[k].out \in {"buffer db error", "openai thread error", "db set thread error",
                      "openai add message error"}
      => HistoryBy(k, "user") = {}

\* ---------------------------------------------------------------- C17
\* C17: a turn that went all the way made exactly one dispatch: a media message
\* of kind audio when the turn's lastKind is audio, a text message otherwise.
C17_DispatchFollowsLastKind ==
  \A k \in DOMAIN turns :
    turns[k].out = "ok" =>
      /\ Cardinality(SentBy(k)) = 1
      /\ \A d \in SentBy(k) :
           sent[d].kind = IF turns[k].lastKind = KindAudio THEN "audio" ELSE "text"

\* ---------------------------------------------------------------- C18
\* what request n did: the successful upserts, the history records, the calls
\* of AddMessage and the calls to the gateway and the engine
DoneBy(n) ==
  [upserts |-> {j \in DOMAIN upserts : upserts[j].by = n},
   messages |-> {j \in DOMAIN messages : messages[j].by = n},
   appended |-> {j \in DOMAIN appended : appended[j].by = n},
   extcalls |-> {j \in DOMAIN extcalls : extcalls[j].by = n}]

Nothing == [upserts |-> {}, messages |-> {}, appended |-> {}, extcalls |-> {}]

\* the event of request n, as parsePayload gives it
EventOf(n) == parsePayload(Payloads[responses[n].req].body)

Posted(n) == Payloads[responses[n].req].method = "POST"

\* C18: a posted event marked as sent by the account itself (fromMe or
\* wasSentByApi) is acknowledged with 200 and nothing else happens for it: no
\* upsert of the sender, no history record, no AddMessage, no call to the
\* gateway or the engine.
C18_EchoShortCircuited ==
  \A n \in DOMAIN responses :
    Posted(n) /\ ~EventOf(n).err /\ (EventOf(n).msg.FromMe \/ EventOf(n).msg.WasSentByAPI)
      => /\ responses[n].code = 200
         /\ responses[n].body = "ignored fromMe"
         /\ DoneBy(n) = Nothing

\* an audio event marked wasSentByApi was acknowledged, and another request
\* was buffered
C18_Witness ==
  /\ \E n \in DOMAIN responses :
       /\ Posted(n)
       /\ EventOf(n).msg.WasSentByAPI
       /\ ToLower(EventOf(n).msg.MessageType) = <<"a", "u", "d", "i", "o", "m", "e", "s", "s", "a", "g", "e">>
       /\ responses[n].code = 200
  /\ appended # << >>

\* ---------------------------------------------------------------- C19
HasSuffix(s, suf) ==
  Len(s) >= Len(suf) /\ SubSeq(s, Len(s) - Len(suf) + 1, Len(s)) = suf

\* the address is one of a group, a broadcast or a channel
NotDirect(addr) == \E suf \in JIDSuffixes \ DirectSuffixes : HasSuffix(TrimSpace(addr), suf)

\* C19: an event whose chat address (or, without one, whose sender address)
\* has a group or channel suffix yields no sender: no upsert and no AddMessage
\* is made for it.
C19_OnlyDirectChats ==
  \A n \in DOMAIN responses :
    LET msg == EventOf(n).msg
    IN Posted(n) /\ ~EventOf(n).err
       /\ (NotDirect(msg.ChatID) \/ (msg.ChatID = Empty /\ NotDirect(msg.Sender)))
         => DoneBy(n).upserts = {} /\ DoneBy(n).appended = {}

\* ---------------------------------------------------------------- C20
\* the object has a chat or a sender of its own
Identity(e) ==
  \/ StringOf(Member(e, <<"c", "h", "a", "t", "i", "d">>)) # Empty
  \/ StringOf(Member(e, <<"c", "h", "a", "t", "I", "d">>)) # Empty
  \/ StringOf(Member(e, <<"s", "e", "n", "d", "e", "r">>)) # Empty

\* the document, or the first element of an array
Unwrapped(d) == IF d.k = "arr" /\ Len(d.v) > 0 THEN d.v[1] ELSE d

\* no shape of the document has a chat or a sender
NoIdentity(d) ==
  LET cur == Unwrapped(d)
      body == Member(cur, <<"b", "o", "d", "y">>)
  IN /\ ~Identity(cur)
     /\ ~Identity(Member(cur, <<"m", "e", "s", "s", "a", "g", "e">>))
     /\ ~Identity(Member(body, <<"m", "e", "s", "s", "a", "g", "e">>))
     /\ StringOf(Member(Member(body, <<"c", "h", "a", "t">>), <<"w", "a", "_", "c", "h", "a", "t", "i", "d">>)) = Empty
     /\ StringOf(Member(Member(body, <<"c", "h", "a", "t">>), <<"w", "a", "_", "l", "a", "s", "t", "M", "e", "s", "s", "a", "g", "e", "S", "e", "n", "d", "e", "r">>)) = Empty

\* the first chat address in the bytes of the document, << >> without one
AddressIn(d) ==
  LET m == anyJIDRe(TrimSpace(Encode(Unwrapped(d))))
  IN IF m = << >> THEN << >> ELSE m[2]

\* C20: a posted body in which no shape has a chat or a sender, but whose
\* bytes hold a chat address, is not answered "invalid json": the event is the
\* one of that address alone, and the request goes on to the upsert, which
\* either fails (500) or is followed by AddMessage under the digits of the
\* address (200).
C20_RawAddressFallback ==
  \A n \in DOMAIN responses :
    LET d == Payloads[responses[n].req].body
    IN Posted(n) /\ NoIdentity(d) /\ AddressIn(d) # << >>
         => /\ EventOf(n) = [msg |-> [ZeroMessage EXCEPT !.ChatID = AddressIn(d)],
                             raw |-> Encode(Unwrapped(d)), err |-> FALSE]
            /\ \/ responses[n].code = 500 /\ responses[n].body = "db error"
               \/ /\ responses[n].code = 200 /\ responses[n].body = "ok"
                  /\ \E j \in DoneBy(n).appended :
                       appended[j].phone = chatIDRe(AddressIn(d))[2]

\* a body that is no JSON and one whose address sits under an unknown key were
\* both buffered
C20_Witness ==
  /\ Len(responses) = 2
  /\ \A n \in DOMAIN responses :
       /\ Posted(n) /\ NoIdentity(Payloads[responses[n].req].body)
       /\ responses[n].code = 200
       /\ DoneBy(n).appended # {}
  /\ Payloads[responses[1].req].body.k = "text"
  /\ Payloads[responses[2].req].body.k = "obj"

\* ---------------------------------------------------------------- C21
\* C21: a posted body in which no shape has a chat or a sender and whose bytes
\* hold no chat address is answered 400 "invalid json", and nothing is done
\* for it: no upsert, no history record, no AddMessage, no external call.
C21_NoIdentityIsClientError ==
  \A n \in DOMAIN responses :
    LET d == Payloads[responses[n].req].body
    IN Posted(n) /\ NoIdentity(d) /\ AddressIn(d) = << >>
         => /\ responses[n].code = 400
            /\ responses[n].body = "invalid json"
            /\ DoneBy(n) = Nothing

\* a JSON object without identity and a body that is no JSON were both
\* answered 400
C21_Witness ==
  /\ Len(responses) = 2
  /\ \A n \in DOMAIN responses :
       /\ Posted(n)
       /\ NoIdentity(Payloads[responses[n].req].body)
       /\ AddressIn(Payloads[responses[n].req].body) = << >>
       /\ responses[n].code = 400
  /\ Payloads[responses[1].req].body.k = "obj"
  /\ Payloads[responses[2].req].body.k = "text"

\* ---------------------------------------------------------------- C22
\* the external calls of request n that failed
FailedCalls(n) == {j \in DoneBy(n).extcalls : ~extcalls[j].ok}

\* C22: when an external call made for an audio, image or document message
\* failed (download, transcription, description, text extraction, summary),
\* the fragment is not buffered and the request is answered with an error
\* status.
C22_ModalityFailureAborts ==
  \A n \in DOMAIN responses :
    FailedCalls(n) # {}
      => DoneBy(n).appended = {} /\ responses[n].code >= 500

\* ---------------------------------------------------------------- C23
\* C23: a request is acknowledged with 200 "ok" only when its fragment was
\* persisted as a user-role history record; a failed InsertMessage is
\* answered 5xx.
C23_StoreFailureIs5xx ==
  \A n \in DOMAIN responses :
    responses[n].code = 200 /\ responses[n].body = "ok"
      => \E j \in DoneBy(n).messages : messages[j].role = "user"

\* ---------------------------------------------------------------- C24
\* the exchange answered 2xx
Answered2xx(w) == w.err = NoErr /\ w.code >= 200 /\ w.code <= 299

\* the exchange failed in a way the client retries: a 5xx, or an error of the
\* transport it takes for transient
Transient(w) ==
  \/ w.err = NoErr /\ w.code >= 500 /\ w.code <= 599
  \/ w.err \in {ErrTimeout, ErrReset}

\* C24: every exchange of SendText goes to the first route, or to the route
\* of the exchange before it, or to the next one in the declared order, and
\* only when the exchange before it did not answer 2xx: the routes are tried
\* in order, none before the earlier ones failed, none after a 2xx.
C24_RoutesInOrder ==
  [][(gw'.made = gw.made + 1 /\ gw'.wire.kind = "text")
       => IF gw.wire.kind = "text"
          THEN /\ ~Answered2xx(gw.wire)
               /\ gw'.wire.idx \in {gw.wire.idx, gw.wire.idx + 1}
          ELSE gw'.wire.idx = 1]_vars

\* SendText returned nil after three exchanges: two routes failed, the third
\* answered 2xx
C24_Witness ==
  /\ gw.op = "text" /\ gw.pc = "done"
  /\ gw.result = [kind |-> "nil"]
  /\ gw.wire.idx = 3 /\ gw.made = 3

\* ---------------------------------------------------------------- C25
\* the error that carries the outcome of exchange w
ErrorOf(op, w) ==
  IF w.err # NoErr THEN [kind |-> "net", err |-> w.err]
  ELSE [kind |-> "status", what |-> op, code |-> w.code, body |-> w.body]

\* C25: a send that returns without a 2xx returns an error, and the error
\* carries the outcome of its last exchange, which was on the last route: the
\* status and body, or the error of the transport.
C25_ErrorOfLastRoute ==
  gw.pc = "done" /\ gw.op \in {"text", "media"} /\ ~Answered2xx(gw.wire)
    => /\ gw.wire.kind = gw.op
       /\ gw.wire.idx = Len(PathsOf(gw.op))
       /\ gw.result = ErrorOf(gw.op, gw.wire)

\* every route of SendText answered 404
C25_Witness ==
  /\ gw.op = "text" /\ gw.pc = "done"
  /\ gw.made = Len(defaultTextPaths)
  /\ gw.result.kind = "status" /\ gw.result.code = 404
  /\ gw.result.body = Len(defaultTextPaths)

C27_ClientErrorAdvances ==
  gw.wire.kind \in {"text", "media"} /\ gw.wire.err = NoErr
  /\ gw.wire.code >= 400 /\ gw.wire.code <= 499
    => IF gw.wire.idx < Len(PathsOf(gw.op))
       THEN gw.pc = "routes" /\ gw.i = gw.wire.idx + 1 /\ gw.try = 1
       ELSE gw.pc = "done" /\ gw.result = ErrorOf(gw.op, gw.wire)

\* the first route answered 404 at once and the second one 200
C27_Witness ==
  /\ gw.op = "text" /\ gw.pc = "done"
  /\ gw.made = 2 /\ gw.wire.idx = 2 /\ gw.wire.code = 200
  /\ gw.last.code = 404
  /\ gw.result = [kind |-> "nil"]

\* ---------------------------------------------------------------- C28
\* C28: the bytes are fetched only after the descriptor gave a link; and in
\* both steps a 5xx or a transient error below maxRetries + 1 exchanges is
\* retried, never more than maxRetries + 1 exchanges per step.
C28_BothStepsRetried ==
  /\ gw.wire.kind = "bytes" => gw.wire.link = "u"
  /\ gw.wire.kind \in {"link", "bytes"} => gw.n <= maxRetries + 1
  /\ gw.wire.kind \in {"link", "bytes"} /\ Transient(gw.wire) /\ gw.n <= maxRetries
       => gw.pc # "done"

\* ---------------------------------------------------------------- C29
\* C29: SendTextWithDelay returns only after an exchange on a text route, and
\* what it returns is the outcome of that exchange: nil for a 2xx, its error
\* otherwise, whatever the pulses of the typing indicator gave.
C29_WaitNeverFailsSend ==
  gw.op = "text" /\ gw.pc = "done"
    => /\ gw.wire.kind = "text"
       /\ gw.result = IF Answered2xx(gw.wire) THEN [kind |-> "nil"]
                      ELSE ErrorOf("text", gw.wire)

\* a pulse failed on both of its routes and the text was sent
C29_Witness ==
  /\ gw.op = "text" /\ gw.pc = "done"
  /\ gw.waitFailed
  /\ gw.result = [kind |-> "nil"]

\* ---------------------------------------------------------------- C30
\* C30: table clients never holds two rows of one phone, and an upsert leaves
\* every row there was in place with its id, its phone and its thread_id, and
\* with its name when that was not NULL.
C30_UpsertKeepsExisting ==
  /\ [](\A i, j \in DOMAIN table : table[i].phone = table[j].phone => i = j)
  /\ [][serial' # serial
          => \A i \in DOMAIN table :
               /\ i \in DOMAIN table'
               /\ table'[i].id = table[i].id
               /\ table'[i].phone = table[i].phone
               /\ table'[i].thread_id = table[i].thread_id
               /\ table[i].name # Null => table'[i].name = table[i].name]_vars

\* p1 was upserted with Ana, given a handle, then upserted with Bia and with
\* no name: the row still has Ana and the handle
C30_Witness ==
  /\ stmts = <<[op |-> "upsert", phone |-> "p1", name |-> "Ana"],
               [op |-> "update", id |-> 1, thread_id |-> "thread_1"],
               [op |-> "upsert", phone |-> "p1", name |-> "Bia"],
               [op |-> "upsert", phone |-> "p1", name |-> Null]>>
  /\ table = <<[id |-> 1, phone |-> "p1", name |-> "Ana", thread_id |-> "thread_1"]>>

C32_PollingBounded ==
  /\ [](\A k \in DOMAIN turns :
          /\ Len(turns[k].seen) <= PollBudget
          /\ \A j \in 1..(Len(turns[k].seen) - 1) : turns[k].seen[j] \notin Terminal)
  /\ \A k \in 1..MaxPolling :
       (k \in DOMAIN turns) ~> (k \in DOMAIN turns /\ turns[k].pc = "done")

\* a turn ended after the engine answered every round of the loop with a status
\* that is not terminal
C32_Witness ==
  \E k \in DOMAIN turns :
    /\ turns[k].pc = "done"
    /\ Len(turns[k].seen) = PollBudget
    /\ \A j \in 1..PollBudget : turns[k].seen[j] \in {"in_progress", "queued"}

\* ---------------------------------------------------------------- C33
\* C33: for every sender, the generation captured by a later AddMessage is
\* strictly greater than the one captured by every earlier AddMessage, whatever
\* flushes and deletions of the entry happened in between.
C33_GenerationNeverReused ==
  \A p \in Phones :
    \A t, u \in TimersOfPhone(p) : t < u => timers[t].gen < timers[u].gen

\* ---------------------------------------------------------------- C34
\* the fragment of call a was accepted: it was written, and it differs from the
\* fragment buffered just before it in the same object
Accepted(a) ==
  /\ TimerOf(a) # NoTimer
  /\ \/ adds[a].prev = 0
     \/ TrimLeft(TrimRight(adds[a].text)) # TrimLeft(TrimRight(adds[adds[a].prev].text))

\* C34: once every call has returned and every timer has been stopped or has
\* run its flushIfCurrent to the end, every accepted fragment has been passed
\* to flushFunc, also when its AddMessage took the buffer object before, or ran
\* between, the swap of the fragment list and the deletion of the map entry.
C34_NoFragmentLost ==
  Quiet =>
    \A a \in DOMAIN adds :
      Accepted(a) =>
        \E i \in FlushesWith(a) :
          \E j \in DOMAIN flushed[i].msgs :
            flushed[i].msgs[j] = TrimLeft(TrimRight(adds[a].text))

\* ---------------------------------------------------------------- C35
\* C35: the fragment of an AddMessage call is in at most one invocation of
\* flushFunc and at most once in it, and a flushIfCurrent call that drained a
\* list with fragments invoked flushFunc exactly once, any other call never.
C35_DeliveredAtMostOnce ==
  /\ \A a \in DOMAIN adds : Cardinality(FlushesWith(a)) <= 1
  /\ \A i \in DOMAIN flushed :
       \A j, k \in DOMAIN flushed[i].srcs :
         flushed[i].srcs[j] = flushed[i].srcs[k] => j = k
  /\ \A t \in DOMAIN timers :
       Cardinality({i \in DOMAIN flushed : flushed[i].timer = t})
         = IF timers[t].out = "flushed" THEN 1 ELSE 0

\* a fragment written into a buffer object while the flush of that object was
\* in flight has been flushed, by a second invocation for the same sender
C35_Witness ==
  \E a \in DOMAIN adds :
    /\ adds[a].onold
    /\ FlushesWith(a) # {}
    /\ Cardinality(FlushesOfPhone(adds[a].phone)) >= 2

\* ---------------------------------------------------------------- C36
\* C36: whatever AddMessage calls were made, once no further call is made and
\* the timers have fired, the map has no entry for any sender and no timer is
\* armed, and it stays so; the map has no entry whenever every call has
\* returned and every timer has been stopped or has run to its end.
C36_StateReclaimed ==
  /\ [](Quiet => \A p \in Phones : buffers[p] = NoBuf)
  /\ <>[](/\ \A p \in Phones : buffers[p] = NoBuf
          /\ \A t \in DOMAIN timers : timers[t].pc # "armed")

\* everything has settled after a fragment was written into a buffer object
\* whose flush was in flight, and the map is empty
C36_Witness ==
  /\ Quiet
  /\ \E a \in DOMAIN adds : adds[a].onold
  /\ \A p \in Phones : buffers[p] = NoBuf

\* ---------------------------------------------------------------- C37
\* this step is a step of an AddMessage or flushIfCurrent call for sender p
ActsFor(p) ==
  \/ Len(adds') > Len(adds) /\ adds'[Len(adds')].phone = p
  \/ \E a \in DOMAIN adds : adds[a].phone = p /\ adds'[a].pc # adds[a].pc
  \/ \E t \in DOMAIN timers :
       /\ timers[t].phone = p
       /\ timers[t].pc \in {"fired", "check", "call", "delete"}
       /\ timers'[t].pc # timers[t].pc

\* C37: a step of AddMessage or flushIfCurrent for one sender leaves the map
\* entry, every buffer object (fragment list, lastKind, generation, timer) and
\* every timer of any other sender as they were and creates none for it, and
\* every invocation of flushFunc carries the fragments of calls of its own
\* sender only.
C37_SendersIsolated ==
  /\ [](\A i \in DOMAIN flushed :
          /\ \A j \in DOMAIN flushed[i].srcs :
               adds[flushed[i].srcs[j]].phone = flushed[i].phone
          /\ flushed[i].msgs = Collapse(TextsOf(flushed[i].srcs)))
  /\ [][\A p, q \in Phones :
          (p # q /\ ActsFor(p)) =>
            /\ buffers'[q] = buffers[q]
            /\ \A b \in DOMAIN heap : heap[b].phone = q => heap'[b] = heap[b]
            /\ \A b \in DOMAIN heap' \ DOMAIN heap : heap'[b].phone # q
            /\ \A t \in DOMAIN timers : timers[t].phone = q => timers'[t] = timers[t]
            /\ \A t \in DOMAIN timers' \ DOMAIN timers : timers'[t].phone # q
            /\ \A i \in DOMAIN flushed' \ DOMAIN flushed : flushed'[i].phone # q]_vars

\* both senders were flushed, after a call of one sender was written between
\* two calls of the other
C37_Witness ==
  /\ FlushesOfPhone("p1") # {}
  /\ FlushesOfPhone("p2") # {}
  /\ \E t, u, v \in DOMAIN timers :
       /\ t < u /\ u < v
       /\ timers[t].phone = "p1" /\ timers[u].phone = "p2" /\ timers[v].phone = "p1"

\* ---------------------------------------------------------------- C38
\* C38: when a call of h.ai.GetRun returned an error, it was the turn's last
\* status query, the status is empty, and the turn is about to return or has
\* returned as "run not completed": it fetches no reply, dispatches nothing and
\* writes no assistant-role record.
C38_PollErrorAborts ==
  \A k \in DOMAIN turns :
    \A j \in DOMAIN turns[k].seen :
      turns[k].seen[j] = "error" =>
        /\ j = Len(turns[k].seen)
        /\ turns[k].status = ""
        /\ turns[k].pc \in {"AfterPoll", "done"}
        /\ turns[k].pc = "done" => turns[k].out = "run not completed"
        /\ turns[k].reply = Empty
        /\ SentBy(k) = {}
        /\ HistoryBy(k, "assistant") = {}

\* a turn ended on an error of its third status query, with seven rounds left
C38_Witness ==
  \E k \in DOMAIN turns :
    /\ turns[k].pc = "done"
    /\ turns[k].seen = <<"in_progress", "queued", "error">>
    /\ Len(turns[k].seen) < PollBudget

\* ---------------------------------------------------------------- C39
\* C39: after an error of the transport on a route of SendText that the client
\* does not take for transient, or that came on the last attempt of the route,
\* the next exchange is the first one of the next route, and the send returns
\* that error only after the last route; a 2xx on any route makes the send
\* return nil; and a SendText call makes at most as many exchanges as there
\* are routes times maxRetries + 1.
C39_NetErrorAdvances ==
  /\ (/\ gw.wire.kind = "text"
      /\ gw.wire.err # NoErr
      /\ gw.wire.err \notin {ErrTimeout, ErrReset} \/ gw.n > maxRetries)
       => IF gw.wire.idx < Len(defaultTextPaths)
          THEN gw.pc = "routes" /\ gw.i = gw.wire.idx + 1 /\ gw.try = 1
          ELSE gw.pc = "done" /\ gw.result = ErrorOf("text", gw.wire)
  /\ gw.wire.kind = "text" /\ Answered2xx(gw.wire)
       => gw.pc = "done" /\ gw.result = [kind |-> "nil"]
  /\ gw.op = "text" /\ gw.delay = 0
       => gw.made <= Len(defaultTextPaths) * (maxRetries + 1)

\* the first route of SendText was refused, which the client does not retry,
\* and the second route answered 200
C39_Witness ==
  /\ gw.op = "text" /\ gw.delay = 0 /\ gw.pc = "done"
  /\ gw.last.err = ErrRefused
  /\ gw.made = 2 /\ gw.wire.idx = 2 /\ gw.wire.code = 200
  /\ gw.result = [kind |-> "nil"]

\* ---------------------------------------------------------------- C40
\* the calls of turn k to the engine came in their order, each after the one
\* before it had succeeded
InOrder(k) ==
  /\ AppendedBy(k) # {} => turns[k].pc = "done" \/ turns[k].threadID \in AppendedBy(k)
  /\ RunsBy(k) # {} => AppendedBy(k) # {}
  /\ \A r \in RunsBy(k) : runs[r].thread \in AppendedBy(k)
  /\ turns[k].status # "" => RunsBy(k) # {}
  /\ (\/ turns[k].pc \in {"GetLastAssistantText", "InsertAssistantMessage", "SendText"}
      \/ SentBy(k) # {}
      \/ HistoryBy(k, "assistant") # {})
       => turns[k].status = "completed" /\ RunsBy(k) # {}

\* C40: the engine calls of a turn come in order, each after the one before it
\* succeeded: the text is appended to the turn's thread, then the run is
\* started on it, then the status is polled, and the reply is fetched and
\* dispatched only after the polling ended with completed; and a turn creates
\* a thread only while the sender's row holds no handle.
C40_EngineCallsInOrder ==
  /\ [](\A k \in DOMAIN turns : InOrder(k))
  /\ [][\A k \in DOMAIN turns :
          (Len(threads') > Len(threads) /\ threads'[Len(threads')].by = k)
            => clients[turns[k].phone].thread = NoThread]_vars

====
